---- MODULE Spec2Model ----
(***************************************************************************)
(* Asynchronous orchestration core of the admin-notes summarizer:          *)
(* the summary orchestrator (AIService.processAdminNoteCreated) and the    *)
(* retry subsystem (RetryService) over the failed_jobs / job_retry_log /   *)
(* ai_summaries tables.                                                    *)
(*                                                                         *)
(* Every handler is one action.  The environment of a call is an input of  *)
(* the action: f is the set of store / provider / notification operations  *)
(* that fail while the call runs, k is the value Math.random() returns     *)
(* during the call.  Time is in seconds.                                   *)
(***************************************************************************)
EXTENDS Integers, Sequences, FiniteSets, Bags, TLC

\* ---------------------------------------------------------------- bounds
MaxJobs == 2
MaxTime == 60
MaxNotes == 1
MaxSummaries == 1
MaxLog == 2
RandDen == 2
RetryRandDen == 1
BackoffDen == 16
MaxAttempt == 7
MaxPreload == 11
MaxCleanupJobs == 3
MaxSubs == 6
MaxDispatch == 2
MaxPending == 1
MaxRequests == 1
MaxInFlight == 2

\* ------------------------------------------------------ program constants
HistoryLimit == 10
OrchestratorMaxRetries == 3
TestMaxRetries == 2
BatchLimit == 10
JitterPct == 25
TimerIntervalSec == 30
SecondsPerDay == 86400
\* cleanupOldJobs is called with its default of 30 days and with 7 days
CleanupDays == {7, 30}
\* ages of the stored jobs, in days, and the age of the store
CleanupAges == <<5, 35, 40>>

StartTimes == {0, TimerIntervalSec}
Students == {"s1"}
\* admin_notes_created payloads
Events == {[id |-> "n1", student_id |-> "s1"]}
TheEvent == [id |-> "n1", student_id |-> "s1"]
\* The arguments recordFailedJob is called with: by the orchestrator, by
\* test-retry.ts, and for a job type executeJob does not know.
RecordInputs ==
  {[jobType |-> "admin_note_summary", maxRetries |-> OrchestratorMaxRetries],
   [jobType |-> "admin_note_summary", maxRetries |-> TestMaxRetries],
   [jobType |-> "other", maxRetries |-> OrchestratorMaxRetries]}
\* the jobs the retry subsystem is run on
RetryRecordInputs == {i \in RecordInputs : i.maxRetries = OrchestratorMaxRetries}
\* the AIService instances: the listener's, the retry scheduler's and the one
\* the POST /provider/switch route constructs
Services == {"listener", "retry", "rest"}
\* the instances switchProvider is called on: the route's, and a service's
\* own
Switched == {"listener", "rest"}
\* the instances that run orchestrations
Senders == {"listener", "retry"}

\* operations of one orchestration that may fail
OrchOps == {"selectNotes", "generateCompletion", "insertSummary",
            "insertFailedJob", "notifyJobFailed", "notifySummaryFailed"}
\* operations of the retry path that may fail
RetryOps == {"selectJobs", "setRetrying", "deleteJob", "notifyRetrySuccess",
             "insertRetryLog", "updateJob", "notifyAbandoned"}
\* Fault sets of one orchestration, one per distinguishable run: an operation
\* that the run does not reach is left out.
OrchFaults ==
  {f \in SUBSET OrchOps :
     /\ Cardinality(f \cap {"selectNotes", "generateCompletion", "insertSummary"}) <= 1
     /\ f \cap {"selectNotes", "generateCompletion", "insertSummary"} = {} => f = {}
     /\ "insertFailedJob" \in f => "notifyJobFailed" \notin f}
\* Fault sets of one retry call: a failing orchestration step, with or without
\* a failing failed_jobs insert, or one failing operation of the retry path.
FaultSets ==
  {f \in OrchFaults : f \cap {"notifyJobFailed", "notifySummaryFailed"} = {}}
    \cup {{op} : op \in RetryOps}
\* the values Math.random() takes, on a grid of den points of [0, 1)
RandomValues(den) == {[num |-> i, den |-> den] : i \in 0..(den - 1)}
Rands == RandomValues(RandDen)
RetryRands == RandomValues(RetryRandDen)
BackoffRands == RandomValues(BackoffDen)

VARIABLES
  failedJobs,     \* failed_jobs rows
  jobRetryLog,    \* job_retry_log rows (bag: rows have their own uuid)
  aiSummaries,    \* ai_summaries rows (bag)
  adminNotes,     \* number of admin_notes rows per student
  nextId,         \* next fresh failed_jobs uuid
  now,            \* wall clock, seconds
  aiProvider,     \* AIService.aiProvider of each service instance
  isRunning,      \* RetryService.isRunning
  retryInterval,  \* RetryService.retryInterval is set
  timers,         \* number of interval timers active in the event loop
  last,           \* the call that completed last and what it did
  providerType,   \* AIService.providerType of each service instance
  model,          \* AIService.model of each service instance
  env,            \* process.env.AI_PROVIDER / AI_MODEL
  pending,        \* switchProvider calls awaiting the candidate's health check
  requests,       \* generateCompletion requests in flight
  activated,      \* the provider activated last, and every (instance,
                  \* provider, model) that has been active together
  provider,       \* the provider object constructed last
  isListening,    \* EventListener.isListening
  subscriptions,  \* EventListener.subscriptions: the handles it holds
  live,           \* the subscriptions live on the notification client
  nextSub,        \* next fresh subscription handle
  routes,         \* the RetryService instance of the failed-jobs routes
  attempts,       \* retryJob calls in flight, each at one of its awaits
  starting        \* startListening calls in flight, each at one of its awaits

registryVars == <<providerType, model, env, pending, requests, activated, provider>>
listenerVars == <<isListening, subscriptions, live, nextSub>>
asyncVars == <<routes, attempts, starting>>

vars == <<failedJobs, jobRetryLog, aiSummaries, adminNotes, nextId, now,
          aiProvider, isRunning, retryInterval, timers, last, registryVars,
          listenerVars, asyncVars>>

Min(a, b) == IF a < b THEN a ELSE b

\* the element of a one-element set: The({e(x) : x \in {v}}) is e with x
\* standing for the value of v (a const of the code)
The(S) == CHOOSE x \in S : TRUE

\* ------------------------------------------------------------ the store
\* The tables a call reads and writes, threaded through the operators below.
\* emitted: the pg_notify channels the call has published on; inserted: ids of
\* the failed_jobs rows it inserted; summarized: ai_summaries rows it inserted;
\* faulted: the operations of its fault set that it ran into; started: ids
\* retryJob was called for; executed: ids whose executeJob returned normally;
\* succeeded: ids whose row retryJob then deleted; handled: ids
\* handleRetryFailure was called for; rescheduled / abandoned: ids whose row
\* handleRetryFailure updated to failed / abandoned; uninitialized: the
\* provider was used before initializeProvider had set it.
DB == [jobs |-> failedJobs, log |-> jobRetryLog, summaries |-> aiSummaries,
       nextId |-> nextId, emitted |-> {}, inserted |-> {}, summarized |-> 0,
       faulted |-> {}, started |-> {}, executed |-> {}, handled |-> {},
       rescheduled |-> {}, abandoned |-> {}, succeeded |-> {},
       uninitialized |-> FALSE]

JobIds(db) == {j.id : j \in db.jobs}

RowOf_any(db, id) == CHOOSE j \in db.jobs : TRUE

RowOf(db, id) == CHOOSE j \in db.jobs : j.id = id

LogRowsOf(log, id) == {e \in BagToSet(log) : e.failedJobId = id}

Emit(db, channel) == [db EXCEPT !.emitted = @ \cup {channel}]
Fault(db, op) == [db EXCEPT !.faulted = @ \cup {op}]

\* -------------------------------------------------------------- backoff
delays == <<60, 300, 900, 1800, 3600>>

BaseDelay_off(attemptCount) ==
  delays[Min(attemptCount, Len(delays) - 1) + 1]

BaseDelay(attemptCount) ==
  delays[Min(attemptCount - 1, Len(delays) - 1) + 1]

\* finalDelay = baseDelay * (1 + (random - 0.5) * 2 * jitter);
\* Date.setSeconds truncates the fractional seconds.
\* k is the value of Math.random(), the fraction k.num / k.den
FinalDelay_wide(attemptCount, k) ==
  (BaseDelay(attemptCount) * (100 * k.den + (2 * k.num - k.den) * 2 * JitterPct))
     \div (100 * k.den)

FinalDelay(attemptCount, k) ==
  (BaseDelay(attemptCount) * (100 * k.den + (2 * k.num - k.den) * JitterPct))
     \div (100 * k.den)

calculateNextRetry(attemptCount, k, t) == t + FinalDelay(attemptCount, k)

\* A result of a call: the store after it, and whether the call threw.
Ret(db) == [db |-> db, threw |-> FALSE]
Threw(db) == [db |-> db, threw |-> TRUE]

\* ------------------------------------------------------ recordFailedJob
\* lineage is not a column: it counts the failed orchestration attempts made
\* so far for the event of the row (1 for a first failure).
NewJob_zero(db, jobType, payload, maxRetries, k, t, lineage) ==
  [id |-> db.nextId, jobType |-> jobType, payload |-> payload,
   attemptCount |-> 0, maxRetries |-> maxRetries,
   nextRetryAt |-> calculateNextRetry(1, k, t),
   status |-> "failed", failedAt |-> t, lineage |-> lineage]

NewJob(db, jobType, payload, maxRetries, k, t, lineage) ==
  [id |-> db.nextId, jobType |-> jobType, payload |-> payload,
   attemptCount |-> 1, maxRetries |-> maxRetries,
   nextRetryAt |-> calculateNextRetry(1, k, t),
   status |-> "failed", failedAt |-> t, lineage |-> lineage]

recordFailedJobTry_notifyfirst(db, jobType, payload, maxRetries, f, k, t, lineage) ==
  IF "insertFailedJob" \in f THEN Threw(Fault(db, "insertFailedJob"))
  ELSE IF "notifyJobFailed" \in f THEN Threw(Fault(db, "notifyJobFailed"))
  ELSE LET row == NewJob(db, jobType, payload, maxRetries, k, t, lineage)
       IN Ret(Emit([db EXCEPT !.jobs = @ \cup {row}, !.nextId = @ + 1,
                              !.inserted = @ \cup {row.id}], "job_failed"))

\* the try block: insert the row, then pg_notify('job_failed')
recordFailedJobTry(db, jobType, payload, maxRetries, f, k, t, lineage) ==
  IF "insertFailedJob" \in f THEN Threw(Fault(db, "insertFailedJob"))
  ELSE LET row == NewJob(db, jobType, payload, maxRetries, k, t, lineage)
           db1 == [db EXCEPT !.jobs = @ \cup {row}, !.nextId = @ + 1,
                             !.inserted = @ \cup {row.id}]
       IN IF "notifyJobFailed" \in f THEN Threw(Fault(db1, "notifyJobFailed"))
          ELSE Ret(Emit(db1, "job_failed"))

recordFailedJob_rethrow(db, jobType, payload, maxRetries, f, k, t, lineage) ==
  recordFailedJobTry(db, jobType, payload, maxRetries, f, k, t, lineage)

\* the catch block logs and does not throw
recordFailedJob(db, jobType, payload, maxRetries, f, k, t, lineage) ==
  Ret(recordFailedJobTry(db, jobType, payload, maxRetries, f, k, t, lineage).db)

\* ---------------------------------------------- processAdminNoteCreated
\* buildSummaryPrompt: the notes it is given, oldest first, and their number
buildSummaryPrompt(notes) == [count |-> Cardinality(notes), notes |-> notes]

\* response.content of the provider's answer to prompt
Completion(prompt) == [answerTo |-> prompt]

\* the row inserted for the notes read and the summary generated from them
SummaryRow(event, notes) ==
  [studentId |-> event.student_id,
   summary |-> Completion(buildSummaryPrompt(notes)),
   noteCount |-> Cardinality(notes), lastProcessedNoteId |-> event.id]

OrchestrationFailed_logonly(db, event, f, k, t, lineage) == Ret(db)

\* the catch block: record the failed job (a throw of recordFailedJob would
\* propagate), then pg_notify('summary_failed') inside its own try/catch
OrchestrationFailed(db, event, f, k, t, lineage) ==
  The({IF r.threw THEN r
       ELSE IF "notifySummaryFailed" \in f
         THEN Ret(Fault(r.db, "notifySummaryFailed"))
       ELSE Ret(Emit(r.db, "summary_failed")) :
         r \in {recordFailedJob(db, "admin_note_summary", event,
                                OrchestratorMaxRetries, f, k, t, lineage)}})

\* the notes the orchestration reads: the newest HistoryLimit notes
RecentNotes(student) == Min(adminNotes[student], HistoryLimit)

RecentNoteIds_oldest(student) ==
  {i \in 1..adminNotes[student] : i <= HistoryLimit}

\* ORDER BY created_at DESC LIMIT 10, the notes of a student numbered in the
\* order of their created_at
RecentNoteIds(student) ==
  {i \in 1..adminNotes[student] : i > adminNotes[student] - HistoryLimit}

processAdminNoteCreated_nozero(db, svc, event, f, k, t, lineage) ==
  IF "selectNotes" \in f
    THEN OrchestrationFailed(Fault(db, "selectNotes"), event, f, k, t, lineage)
  ELSE IF aiProvider[svc] = "undefined"
    THEN OrchestrationFailed([db EXCEPT !.uninitialized = TRUE],
                             event, f, k, t, lineage)
  ELSE IF "generateCompletion" \in f
    THEN OrchestrationFailed(Fault(db, "generateCompletion"), event, f, k, t, lineage)
  ELSE IF "insertSummary" \in f
    THEN OrchestrationFailed(Fault(db, "insertSummary"), event, f, k, t, lineage)
  ELSE Ret([db EXCEPT !.summaries = @ (+) SetToBag({SummaryRow(event,
                                          RecentNoteIds(event.student_id))}),
                      !.summarized = @ + 1])

processAdminNoteCreated(db, svc, event, f, k, t, lineage) ==
  IF "selectNotes" \in f
    THEN OrchestrationFailed(Fault(db, "selectNotes"), event, f, k, t, lineage)
  ELSE IF RecentNotes(event.student_id) = 0 THEN Ret(db)
  ELSE IF aiProvider[svc] = "undefined"
    THEN OrchestrationFailed([db EXCEPT !.uninitialized = TRUE],
                             event, f, k, t, lineage)
  ELSE IF "generateCompletion" \in f
    THEN OrchestrationFailed(Fault(db, "generateCompletion"), event, f, k, t, lineage)
  ELSE IF "insertSummary" \in f
    THEN OrchestrationFailed(Fault(db, "insertSummary"), event, f, k, t, lineage)
  ELSE Ret([db EXCEPT !.summaries = @ (+) SetToBag({SummaryRow(event,
                                          RecentNoteIds(event.student_id))}),
                      !.summarized = @ + 1])

\* ---------------------------------------------------- handleRetryFailure
\* INSERT INTO job_retry_log: the foreign key needs the failed_jobs row.
InsertRetryLogFails(db, id, f) == "insertRetryLog" \in f \/ id \notin JobIds(db)

HasMoreRetries(job) == job.attemptCount + 1 < job.maxRetries

Reschedule_same(j, newAttemptCount, k, t) ==
  [j EXCEPT !.status = "failed", !.attemptCount = newAttemptCount,
            !.nextRetryAt = t]

Reschedule(j, newAttemptCount, k, t) ==
  [j EXCEPT !.status = "failed", !.attemptCount = newAttemptCount,
            !.nextRetryAt = calculateNextRetry(newAttemptCount, k, t)]

Abandon_failed(j, newAttemptCount) ==
  [j EXCEPT !.status = "failed", !.attemptCount = newAttemptCount]

Abandon(j, newAttemptCount) ==
  [j EXCEPT !.status = "abandoned", !.attemptCount = newAttemptCount]

\* job is the row as the caller read it, not the row now in the store.
\* UPDATE failed_jobs ... WHERE id = job.id: no such row, nothing is updated.
handleRetryFailure(db0, job, f, k, t) ==
  LET newAttemptCount == job.attemptCount + 1
      db == [db0 EXCEPT !.handled = @ \cup {job.id}]
  IN IF InsertRetryLogFails(db, job.id, f)
       THEN Threw(IF "insertRetryLog" \in f THEN Fault(db, "insertRetryLog") ELSE db)
     ELSE
       LET db1 == [db EXCEPT !.log = @ (+) SetToBag({[failedJobId |-> job.id,
                                          attemptNumber |-> newAttemptCount]})]
       IN IF "updateJob" \in f THEN Threw(Fault(db1, "updateJob"))
          ELSE IF HasMoreRetries(job)
            THEN Ret([db1 EXCEPT
                        !.jobs = {IF j.id = job.id
                                    THEN Reschedule(j, newAttemptCount, k, t)
                                    ELSE j : j \in @},
                        !.rescheduled = @ \cup {job.id}])
          ELSE LET db2 == [db1 EXCEPT
                             !.jobs = {IF j.id = job.id
                                         THEN Abandon(j, newAttemptCount)
                                         ELSE j : j \in @},
                             !.abandoned = @ \cup {job.id}]
               IN IF "notifyAbandoned" \in f
                    THEN Threw(Fault(db2, "notifyAbandoned"))
                    ELSE Ret(Emit(db2, "job_abandoned"))

\* ----------------------------------------------------------- executeJob
\* Throws (threw = TRUE) only for an unknown job type: processAdminNoteCreated
\* absorbs its own failures.
executeJob(db, job, f, k, t) ==
  IF job.jobType = "admin_note_summary"
    THEN The({IF r.threw THEN r
              ELSE Ret([r.db EXCEPT !.executed = @ \cup {job.id}]) :
                r \in {processAdminNoteCreated(db, "retry", job.payload, f, k, t,
                                               job.lineage + 1)}})
    ELSE Threw(db)

\* ------------------------------------------------------------- retryJob
\* DELETE FROM failed_jobs WHERE id: job_retry_log.failed_job_id references
\* failed_jobs(id) ON DELETE no action, so a referenced row cannot be deleted.
DeleteJobFails(db, id, f) == "deleteJob" \in f \/ LogRowsOf(db.log, id) # {}

SetRetrying(j) == [j EXCEPT !.status = "retrying"]

\* the try block after the row was set to retrying (db1): executeJob, delete
\* the row, pg_notify('job_retry_success'); a throw goes to handleRetryFailure
retryJobTry(db1, job, f, k, t) ==
  The({IF ex.threw THEN handleRetryFailure(ex.db, job, f, k, t)
       ELSE IF DeleteJobFails(ex.db, job.id, f)
         THEN handleRetryFailure(IF "deleteJob" \in f
                                   THEN Fault(ex.db, "deleteJob") ELSE ex.db,
                                 job, f, k, t)
       ELSE IF "notifyRetrySuccess" \in f
         THEN handleRetryFailure(
                Fault([ex.db EXCEPT !.jobs = {j \in @ : j.id # job.id},
                                    !.succeeded = @ \cup {job.id}],
                      "notifyRetrySuccess"), job, f, k, t)
       ELSE Ret(Emit([ex.db EXCEPT !.jobs = {j \in @ : j.id # job.id},
                                   !.succeeded = @ \cup {job.id}],
                     "job_retry_success")) :
         ex \in {executeJob(db1, job, f, k, t)}})

retryJob(db0, job, f, k, t) ==
  IF "setRetrying" \in f
    THEN handleRetryFailure(Fault([db0 EXCEPT !.started = @ \cup {job.id}],
                                  "setRetrying"), job, f, k, t)
  ELSE The({retryJobTry(db1, job, f, k, t) :
              db1 \in {[db0 EXCEPT
                          !.started = @ \cup {job.id},
                          !.jobs = {IF j.id = job.id THEN SetRetrying(j)
                                                     ELSE j : j \in @}]}})

\* --------------------------------------------------------- processRetries
DueJobs_nostatus(jobs, t) ==
  {j \in jobs : /\ j.nextRetryAt <= t
                /\ j.attemptCount < j.maxRetries}

\* WHERE status = 'failed' AND next_retry_at <= now AND attempt_count < max_retries
DueJobs(jobs, t) ==
  {j \in jobs : /\ j.status = "failed"
                /\ j.nextRetryAt <= t
                /\ j.attemptCount < j.maxRetries}

\* LIMIT 10 without ORDER BY: any BatchLimit of the due rows
Batches(jobs, t) ==
  The({{B \in SUBSET due : Cardinality(B) = Min(BatchLimit, Cardinality(due))} :
         due \in {DueJobs(jobs, t)}})

\* the rows of S as a sequence, by id
RECURSIVE InIdOrder(_)
InIdOrder(S) ==
  IF S = {} THEN <<>>
  ELSE The({<<j>> \o InIdOrder(S \ {j}) :
              j \in {x \in S : \A y \in S : x.id <= y.id}})

\* for (const job of jobsToRetry) await this.retryJob(job): a throw out of
\* retryJob leaves the loop.
RECURSIVE RetryAll(_, _, _, _, _)
RetryAll_stop(db, batch, f, k, t) ==
  IF batch = <<>> THEN Ret(db)
  ELSE The({IF r.threw \/ r.db.handled # {} THEN r
            ELSE RetryAll(r.db, Tail(batch), f, k, t) :
              r \in {retryJob(db, Head(batch), f, k, t)}})

RetryAll(db, batch, f, k, t) ==
  IF batch = <<>> THEN Ret(db)
  ELSE The({IF r.threw THEN r ELSE RetryAll(r.db, Tail(batch), f, k, t) :
              r \in {retryJob(db, Head(batch), f, k, t)}})

\* The outer catch logs whatever is thrown: processRetries never throws.
processRetries(db, B, f, k, t) ==
  IF "selectJobs" \in f THEN Ret(Fault(db, "selectJobs"))
  ELSE The({Ret(RetryAll(db, batch, f, k, t).db) : batch \in {InIdOrder(B)}})

\* ------------------------------------------------------------- actions
\* The call is taken only if its result stays within the bounds.
CommitWithin(db, maxJobs, maxLog, maxSummaries) ==
  /\ db.nextId <= maxJobs + 1
  /\ BagCardinality(db.summaries) <= maxSummaries
  /\ BagCardinality(db.log) <= maxLog
  /\ failedJobs' = db.jobs
  /\ jobRetryLog' = db.log
  /\ aiSummaries' = db.summaries
  /\ nextId' = db.nextId

Commit(db) == CommitWithin(db, MaxJobs, MaxLog, MaxSummaries)

\* what the call that just completed did
Done(op, outcome, db, arg) ==
  [op |-> op, outcome |-> outcome, arg |-> arg, emitted |-> db.emitted,
   inserted |-> db.inserted, summarized |-> db.summarized,
   faulted |-> db.faulted, started |-> db.started, executed |-> db.executed,
   handled |-> db.handled, rescheduled |-> db.rescheduled,
   abandoned |-> db.abandoned, succeeded |-> db.succeeded,
   uninitialized |-> db.uninitialized, at |-> now, value |-> 0]

NoArg == [id |-> 0, jobType |-> "", maxRetries |-> 0]

\* AiProviderFactory.getDefaultModel
getDefaultModel(type) ==
  CASE type = "claude" -> "claude-3-5-sonnet-20241022"
    [] type = "openai" -> "gpt-4-turbo"
    [] type = "azure-openai" -> "gpt-4"
    [] type = "palm" -> "text-bison-001"
    [] type = "cohere" -> "command"
    [] OTHER -> ""

\* AIService constructor: providerType and model from the environment ("" is
\* an unset variable)
ConstructedType == IF env.AI_PROVIDER # "" THEN env.AI_PROVIDER ELSE "claude"
ConstructedModel ==
  IF env.AI_MODEL # "" THEN env.AI_MODEL ELSE getDefaultModel(ConstructedType)

\* no provider object constructed yet
NoProvider == [type |-> "none", initialized |-> FALSE, client |-> FALSE]

\* the services as constructed at start-up, the environment naming no provider
InitRegistry ==
  /\ provider = NoProvider
  /\ env = [AI_PROVIDER |-> "", AI_MODEL |-> ""]
  /\ providerType = [s \in Services |-> "claude"]
  /\ model = [s \in Services |-> getDefaultModel("claude")]
  /\ pending = {}
  /\ requests = {}
  /\ activated = [ref |-> "none",
                  pairs |-> {[svc |-> s, provider |-> "claude",
                              model |-> getDefaultModel("claude")] : s \in Senders}]

\* EventListener as constructed
InitListener ==
  /\ isListening = FALSE
  /\ subscriptions = {}
  /\ live = {}
  /\ nextSub = 1

\* the routes' RetryService as constructed, no call in flight
InitAsync ==
  /\ routes = [isRunning |-> FALSE, retryInterval |-> FALSE]
  /\ attempts = <<>>
  /\ starting = <<>>

\* Store empty, services constructed, retry processor not started; the clock
\* reads one of StartTimes.
Init ==
  /\ failedJobs = {}
  /\ jobRetryLog = EmptyBag
  /\ aiSummaries = EmptyBag
  /\ adminNotes = [s \in Students |-> 0]
  /\ nextId = 1
  /\ now \in StartTimes
  /\ aiProvider = [s \in Services |-> "undefined"]
  /\ isRunning = FALSE
  /\ retryInterval = FALSE
  /\ timers = 0
  /\ last = Done("none", "returned", DB, NoArg)
  /\ InitRegistry
  /\ InitListener
  /\ InitAsync

\* the listener's admin_notes_created handler hands event to the orchestrator
ProcessAdminNoteCreated ==
  \E event \in Events, f \in SUBSET OrchOps, k \in Rands :
    \E r \in {processAdminNoteCreated(DB, "listener", event, f, k, now, 1)} :
       /\ Commit(r.db)
       /\ last' = Done("processAdminNoteCreated",
                       IF r.threw THEN "threw" ELSE "returned", r.db, NoArg)
       /\ UNCHANGED <<registryVars, listenerVars,
                      adminNotes, now, aiProvider, isRunning, retryInterval,
                   timers, asyncVars>>

\* a direct call of the public recordFailedJob (test-retry.ts)
RecordFailedJobWith(R, Inputs) ==
  \E in \in Inputs,
     f \in SUBSET {"insertFailedJob", "notifyJobFailed"}, k \in R :
    \E r \in {recordFailedJob(DB, in.jobType, TheEvent, in.maxRetries, f, k, now, 1)} :
       /\ Commit(r.db)
       /\ last' = Done("recordFailedJob",
                       IF r.threw THEN "threw" ELSE "returned", r.db,
                       [id |-> 0, jobType |-> in.jobType,
                        maxRetries |-> in.maxRetries])
       /\ UNCHANGED <<registryVars, listenerVars,
                      adminNotes, now, aiProvider, isRunning, retryInterval,
                   timers, asyncVars>>

RecordFailedJob == RecordFailedJobWith(RetryRands, RetryRecordInputs)

RecordFailedJobOrch == RecordFailedJobWith(Rands, RecordInputs)

StartRetryProcessor_noguard ==
  /\ isRunning' = TRUE
  /\ retryInterval' = TRUE
  /\ timers' = timers + 1
  /\ last' = Done("startRetryProcessor", "returned", DB, NoArg)
  /\ UNCHANGED <<registryVars, listenerVars,
                 failedJobs, jobRetryLog, aiSummaries, adminNotes, nextId, now,
                 aiProvider, asyncVars>>

StartRetryProcessor ==
  /\ isRunning' = TRUE
  /\ retryInterval' = (IF isRunning THEN retryInterval ELSE TRUE)
  /\ timers' = (IF isRunning THEN timers ELSE timers + 1)
  /\ last' = Done("startRetryProcessor", "returned", DB, NoArg)
  /\ UNCHANGED <<registryVars, listenerVars,
                 failedJobs, jobRetryLog, aiSummaries, adminNotes, nextId, now,
                 aiProvider, asyncVars>>

StopRetryProcessor ==
  /\ retryInterval' = FALSE
  /\ timers' = (IF retryInterval THEN timers - 1 ELSE timers)
  /\ isRunning' = FALSE
  /\ last' = Done("stopRetryProcessor", "returned", DB, NoArg)
  /\ UNCHANGED <<registryVars, listenerVars,
                 failedJobs, jobRetryLog, aiSummaries, adminNotes, nextId, now,
                 aiProvider, asyncVars>>

\* the setInterval callback: one run of processRetries
TimerTick ==
  /\ timers > 0
  /\ \E f \in FaultSets, k \in RetryRands, B \in Batches(failedJobs, now) :
       \E r \in {processRetries(DB, B, f, k, now)} :
          /\ Commit(r.db)
          /\ last' = Done("processRetries",
                          IF r.threw THEN "threw" ELSE "returned", r.db, NoArg)
  /\ UNCHANGED <<registryVars, listenerVars,
                 adminNotes, now, aiProvider, isRunning, retryInterval,
                   timers, asyncVars>>

\* POST /retry/:jobId
RetryJobById ==
  \E id \in 1..MaxJobs, f \in FaultSets, k \in RetryRands :
    /\ IF "selectJobs" \in f \/ id \notin JobIds(DB)
         THEN /\ last' = Done("retryJobById", "threw", DB,
                              [NoArg EXCEPT !.id = id])
              /\ UNCHANGED <<failedJobs, jobRetryLog, aiSummaries, nextId>>
         ELSE \E r \in {retryJob(DB, RowOf(DB, id), f, k, now)} :
                 /\ Commit(r.db)
                 /\ last' = Done("retryJobById",
                                 IF r.threw THEN "threw" ELSE "returned",
                                 r.db, [NoArg EXCEPT !.id = id])
    /\ UNCHANGED <<registryVars, listenerVars,
                   adminNotes, now, aiProvider, isRunning, retryInterval,
                   timers, asyncVars>>

\* AIService constructor: initializeProvider completes for a service instance
InitializeProvider ==
  \E svc \in {"listener"} :
    /\ aiProvider[svc] = "undefined"
    /\ aiProvider' = [aiProvider EXCEPT ![svc] = "claude"]
    /\ UNCHANGED <<registryVars, listenerVars,
                   failedJobs, jobRetryLog, aiSummaries, adminNotes, nextId, now,
                   isRunning, retryInterval, last,
                   timers, asyncVars>>

\* POST /notes inserts an admin_notes row
InsertAdminNote ==
  \E s \in Students :
    /\ adminNotes[s] < MaxNotes
    /\ adminNotes' = [adminNotes EXCEPT ![s] = @ + 1]
    /\ UNCHANGED <<registryVars, listenerVars,
                   failedJobs, jobRetryLog, aiSummaries, nextId, now, aiProvider,
                   isRunning, retryInterval, last,
                   timers, asyncVars>>

\* time passes, up to the instant the next_retry_at of some row is reached
Advance ==
  /\ \E j \in failedJobs :
       /\ j.nextRetryAt > now
       /\ j.nextRetryAt <= MaxTime
       /\ now' = j.nextRetryAt
  /\ UNCHANGED <<registryVars, listenerVars,
                 failedJobs, jobRetryLog, aiSummaries, adminNotes, nextId,
                 aiProvider, isRunning, retryInterval, last,
                   timers, asyncVars>>

\* The retry subsystem: failures are recorded, the scheduler's ticks and the
\* manual retry run them again through the orchestrator.
Next ==
  \/ RecordFailedJob
  \/ TimerTick
  \/ RetryJobById
  \/ Advance

\* Store empty, the student has a note, the providers have been initialized
\* and the onReady hook has started the retry processor.
InitRetry ==
  /\ failedJobs = {}
  /\ jobRetryLog = EmptyBag
  /\ aiSummaries = EmptyBag
  /\ adminNotes = [s \in Students |-> 1]
  /\ nextId = 1
  /\ now = 0
  /\ aiProvider = [s \in Services |-> "claude"]
  /\ isRunning = TRUE
  /\ retryInterval = TRUE
  /\ timers = 1
  /\ last = Done("none", "returned", DB, NoArg)
  /\ InitRegistry
  /\ InitListener
  /\ InitAsync

Spec == InitRetry /\ [][Next]_vars

\* The orchestrator: events delivered by the listener, failures recorded.
\* a student with up to HistoryLimit + 1 notes, the provider initialized
InitNotes ==
  /\ failedJobs = {}
  /\ jobRetryLog = EmptyBag
  /\ aiSummaries = EmptyBag
  /\ adminNotes \in [Students -> 0..(HistoryLimit + 1)]
  /\ nextId = 1
  /\ now \in StartTimes
  /\ aiProvider = [s \in Services |-> "claude"]
  /\ isRunning = FALSE
  /\ retryInterval = FALSE
  /\ timers = 0
  /\ last = Done("none", "returned", DB, NoArg)
  /\ InitRegistry
  /\ InitListener
  /\ InitAsync

SpecNotes == InitNotes /\ [][ProcessAdminNoteCreated]_vars

NextScheduler ==
  \/ StartRetryProcessor
  \/ StopRetryProcessor
  \/ TimerTick
  \/ RecordFailedJob
  \/ Advance

\* the retry processor started at start-up, then started and stopped at will
SpecScheduler == InitRetry /\ [][NextScheduler]_vars

NextOrch ==
  \/ ProcessAdminNoteCreated
  \/ RecordFailedJobOrch
  \/ InitializeProvider
  \/ InsertAdminNote

SpecOrch == Init /\ [][NextOrch]_vars

\* ------------------------------------------- a full store: the batch limit
\* Rows a long-running store holds next to the due ones, one per kind.
PreloadKinds == {"abandoned", "retrying", "future", "exhausted"}

PreloadDue(i) ==
  [id |-> i, jobType |-> "admin_note_summary", payload |-> TheEvent,
   attemptCount |-> 1, maxRetries |-> OrchestratorMaxRetries,
   nextRetryAt |-> delays[1], status |-> "failed", failedAt |-> 0,
   lineage |-> 1]

PreloadOther(i, kind) ==
  CASE kind = "abandoned" ->
         [PreloadDue(i) EXCEPT !.status = "abandoned", !.jobType = "other",
                               !.attemptCount = OrchestratorMaxRetries]
    [] kind = "retrying" -> [PreloadDue(i) EXCEPT !.status = "retrying"]
    [] kind = "future" -> [PreloadDue(i) EXCEPT !.nextRetryAt = 2 * delays[1]]
    [] kind = "exhausted" ->
         [PreloadDue(i) EXCEPT !.attemptCount = TestMaxRetries,
                               !.maxRetries = TestMaxRetries]

PreloadLog(i) ==
  SetToBag({[failedJobId |-> i, attemptNumber |-> a] :
              a \in 2..OrchestratorMaxRetries})

\* The store after n jobs were recorded and their first retry time has passed,
\* the retry processor running.
InitBatch ==
  \E n \in (BatchLimit - 1)..MaxPreload, extra \in SUBSET PreloadKinds :
    LET Id(kind) == n + (CHOOSE i \in 1..4 :
                           <<"abandoned", "retrying", "future", "exhausted">>[i] = kind)
    IN /\ failedJobs = {PreloadDue(i) : i \in 1..n}
                         \cup {PreloadOther(Id(kind), kind) : kind \in extra}
       /\ jobRetryLog = IF "abandoned" \in extra
                          THEN PreloadLog(Id("abandoned")) ELSE EmptyBag
       /\ nextId = n + 5
  /\ aiSummaries = EmptyBag
  /\ adminNotes = [s \in Students |-> 1]
  /\ now = delays[1]
  /\ aiProvider = [s \in Services |-> "claude"]
  /\ isRunning = TRUE
  /\ retryInterval = TRUE
  /\ timers = 1
  /\ last = Done("none", "returned", DB, NoArg)
  /\ InitRegistry
  /\ InitListener
  /\ InitAsync

BatchFaults == {{}, {"setRetrying"}, {"generateCompletion"}, {"insertSummary"}}

TimerTickBatch ==
  /\ timers > 0
  /\ \E f \in BatchFaults, k \in RetryRands, B \in Batches(failedJobs, now) :
       \E r \in {processRetries(DB, B, f, k, now)} :
          /\ CommitWithin(r.db, MaxPreload + 4 + BatchLimit,
                          MaxPreload + 4, MaxPreload + 4)
          /\ last' = Done("processRetries",
                          IF r.threw THEN "threw" ELSE "returned", r.db, NoArg)
  /\ UNCHANGED <<registryVars, listenerVars,
                 adminNotes, now, aiProvider, isRunning, retryInterval,
                   timers, asyncVars>>

NextBatch == TimerTickBatch

SpecBatch == InitBatch /\ [][NextBatch]_vars

\* ------------------------------------------------------- cleanupOldJobs
\* cutoffDate.setDate(cutoffDate.getDate() - daysOld), in seconds
CutoffDate(daysOld, t) == t - daysOld * SecondsPerDay

\* WHERE status = 'abandoned' AND failed_at <= cutoffDate
OldJobs(jobs, daysOld, t) ==
  {j \in jobs : j.status = "abandoned" /\ j.failedAt <= CutoffDate(daysOld, t)}

\* The DELETE is one statement: it fails as a whole when the store fails or
\* when a row it would delete is referenced by job_retry_log (ON DELETE no
\* action), and the error leaves cleanupOldJobs.
cleanupOldJobs(db, daysOld, f, t) ==
  IF "deleteOldJobs" \in f THEN Threw(Fault(db, "deleteOldJobs"))
  ELSE IF \E j \in OldJobs(db.jobs, daysOld, t) : LogRowsOf(db.log, j.id) # {}
    THEN Threw(db)
  ELSE Ret([db EXCEPT !.jobs = @ \ OldJobs(db.jobs, daysOld, t)])

\* DELETE /cleanup: value is the row count cleanupOldJobs returns, arg.id the
\* days it was called with
CleanupOldJobs ==
  \E daysOld \in CleanupDays, f \in SUBSET {"deleteOldJobs"} :
    \E r \in {cleanupOldJobs(DB, daysOld, f, now)} :
      /\ failedJobs' = r.db.jobs
      /\ last' = [Done("cleanupOldJobs", IF r.threw THEN "threw" ELSE "returned",
                       r.db, [NoArg EXCEPT !.id = daysOld])
                    EXCEPT !.value = IF r.threw THEN 0
                                     ELSE Cardinality(failedJobs \ r.db.jobs)]
      /\ UNCHANGED <<registryVars, listenerVars, jobRetryLog, aiSummaries,
                     adminNotes, nextId, now, aiProvider, isRunning, retryInterval,
                   timers, asyncVars>>

\* the rows of a store that has run for CleanupAges[3] days: a job recorded
\* age days ago that is still failed, or stuck in retrying after its first
\* failed retry, or abandoned by the retry path
CleanupStatuses == {"failed", "retrying", "abandoned"}

CleanupRow(i, status, failedAt) ==
  CASE status = "failed" -> [PreloadDue(i) EXCEPT !.failedAt = failedAt,
                               !.nextRetryAt = failedAt + delays[1]]
    [] status = "retrying" ->
         [PreloadDue(i) EXCEPT !.failedAt = failedAt, !.status = "retrying",
                               !.nextRetryAt = failedAt + delays[1]]
    [] status = "abandoned" ->
         [PreloadOther(i, "abandoned") EXCEPT !.failedAt = failedAt,
                                              !.nextRetryAt = failedAt + delays[2]]

InitCleanup ==
  /\ \E n \in 0..MaxCleanupJobs :
       \E st \in [1..n -> CleanupStatuses],
          age \in [1..n -> {CleanupAges[a] : a \in 1..2}] :
         /\ failedJobs = {CleanupRow(i, st[i],
                                     (CleanupAges[3] - age[i]) * SecondsPerDay) :
                            i \in 1..n}
         /\ jobRetryLog = SetToBag({e \in UNION {BagToSet(PreloadLog(i)) : i \in 1..n} :
                                     st[e.failedJobId] = "abandoned"})
         /\ nextId = n + 1
  /\ aiSummaries = EmptyBag
  /\ adminNotes = [s \in Students |-> 1]
  /\ now = CleanupAges[3] * SecondsPerDay
  /\ aiProvider = [s \in Services |-> "claude"]
  /\ isRunning = TRUE
  /\ retryInterval = TRUE
  /\ timers = 1
  /\ last = Done("none", "returned", DB, NoArg)
  /\ InitRegistry
  /\ InitListener
  /\ InitAsync

NextCleanup == CleanupOldJobs

SpecCleanup == InitCleanup /\ [][NextCleanup]_vars

\* ------------------------------------------------------- EventListener
\* the channels startListening subscribes to, in the order it does
Channels == <<"admin_notes_created", "summary_completed", "summary_failed">>

\* the EventListener's fields, and the subscriptions live on the client
Listener == [isListening |-> isListening, subscriptions |-> subscriptions,
             live |-> live, nextSub |-> nextSub]

\* await notificationClient.listen(channel, ...) resolved and its result was
\* pushed to this.subscriptions
Listen(L, channel) ==
  [L EXCEPT !.subscriptions = @ \cup {[n |-> L.nextSub, channel |-> channel]},
            !.live = @ \cup {[n |-> L.nextSub, channel |-> channel]},
            !.nextSub = @ + 1]

RECURSIVE ListenAll(_, _, _)
\* the listen calls for Channels[from..to], in order
ListenAll(L, from, to) ==
  IF from > to THEN L ELSE ListenAll(Listen(L, Channels[from]), from + 1, to)

startListening_noguard(L, failAt) ==
  IF failAt = 0
    THEN [l |-> [ListenAll(L, 1, Len(Channels)) EXCEPT !.isListening = TRUE],
          threw |-> FALSE]
    ELSE [l |-> ListenAll(L, 1, failAt - 1), threw |-> TRUE]

\* failAt is the position in Channels of the listen call that rejects, 0 when
\* none does: the catch rethrows and does nothing else.
startListening(L, failAt) ==
  IF L.isListening THEN [l |-> L, threw |-> FALSE]
  ELSE IF failAt = 0
    THEN [l |-> [ListenAll(L, 1, Len(Channels)) EXCEPT !.isListening = TRUE],
          threw |-> FALSE]
    ELSE [l |-> ListenAll(L, 1, failAt - 1), threw |-> TRUE]

Unlisten_none(liveSubs, subs) == liveSubs

\* subscription.unlisten() resolved for each of subs
Unlisten(liveSubs, subs) == liveSubs \ subs

stopListening_giveup(L, F) ==
  IF ~L.isListening THEN [l |-> L, threw |-> FALSE]
  ELSE IF F \cap L.subscriptions # {}
    THEN [l |-> [L EXCEPT !.live = Unlisten(@, L.subscriptions \ F),
                          !.subscriptions = {}, !.isListening = FALSE],
          threw |-> TRUE]
    ELSE [l |-> [L EXCEPT !.live = Unlisten(@, L.subscriptions),
                          !.subscriptions = {}, !.isListening = FALSE],
          threw |-> FALSE]

stopListening_keepheld(L, F) ==
  IF ~L.isListening THEN [l |-> L, threw |-> FALSE]
  ELSE IF F \cap L.subscriptions # {}
    THEN [l |-> [L EXCEPT !.live = Unlisten(@, L.subscriptions \ F)],
          threw |-> TRUE]
    ELSE [l |-> [L EXCEPT !.live = Unlisten(@, L.subscriptions),
                          !.isListening = FALSE],
          threw |-> FALSE]

\* F is the set of subscriptions whose unlisten() rejects: Promise.all starts
\* every unlisten and rejects when one of them does.
stopListening(L, F) ==
  IF ~L.isListening THEN [l |-> L, threw |-> FALSE]
  ELSE IF F \cap L.subscriptions # {}
    THEN [l |-> [L EXCEPT !.live = Unlisten(@, L.subscriptions \ F)],
          threw |-> TRUE]
    ELSE [l |-> [L EXCEPT !.live = Unlisten(@, L.subscriptions),
                          !.subscriptions = {}, !.isListening = FALSE],
          threw |-> FALSE]

\* the callbacks a notification on channel runs: one per live subscription
Callbacks(liveSubs, channel) == {h \in liveSubs : h.channel = channel}

RECURSIVE Dispatch(_, _, _, _, _, _)
\* n callbacks of admin_notes_created, each handing the event to the
\* orchestrator and swallowing what it throws
Dispatch(db, n, event, f, k, t) ==
  IF n = 0 THEN db
  ELSE Dispatch(The({r.db : r \in {processAdminNoteCreated(db, "listener", event,
                                                           f, k, t, 1)}}),
                n - 1, event, f, k, t)

SetListener(L) ==
  /\ isListening' = L.isListening
  /\ subscriptions' = L.subscriptions
  /\ live' = L.live
  /\ nextSub' = L.nextSub

\* value is the number of subscriptions the call made, arg.id the listen call
\* that rejected
StartListeningWith(Fails) ==
  \E failAt \in Fails :
    \E r \in {startListening(Listener, failAt)} :
      /\ r.l.nextSub <= MaxSubs + 1
      /\ SetListener(r.l)
      /\ last' = [Done("startListening", IF r.threw THEN "threw" ELSE "returned",
                       DB, [NoArg EXCEPT !.id = failAt])
                    EXCEPT !.value = r.l.nextSub - nextSub]
      /\ UNCHANGED <<registryVars, failedJobs, jobRetryLog, aiSummaries,
                     adminNotes, nextId, now, aiProvider, isRunning, retryInterval,
                   timers, asyncVars>>

StartListening == StartListeningWith(0..Len(Channels))

\* value is the number of subscriptions the call ended, arg.id the number of
\* unlisten calls that rejected
StopListeningWith(Fails) ==
  \E F \in Fails :
    \E r \in {stopListening(Listener, F)} :
      /\ SetListener(r.l)
      /\ last' = [Done("stopListening", IF r.threw THEN "threw" ELSE "returned",
                       DB, [NoArg EXCEPT !.id = Cardinality(F)])
                    EXCEPT !.value = Cardinality(live \ r.l.live)]
      /\ UNCHANGED <<registryVars, failedJobs, jobRetryLog, aiSummaries,
                     adminNotes, nextId, now, aiProvider, isRunning, retryInterval,
                   timers, asyncVars>>

\* no unlisten rejects, or one does
StopListening ==
  StopListeningWith({F \in SUBSET subscriptions : Cardinality(F) <= 1})

\* a NOTIFY on admin_notes_created reaches the client; value is the number of
\* times the event was handed to the orchestrator
DeliverNoteCreated ==
  \E event \in Events, f \in OrchFaults, k \in RetryRands :
    \E n \in {Cardinality(Callbacks(live, Channels[1]))} :
      \E db \in {Dispatch(DB, n, event, f, k, now)} :
        /\ CommitWithin(db, MaxJobs, MaxLog, MaxDispatch)
        /\ last' = [Done("deliverNoteCreated", "returned", db, NoArg)
                      EXCEPT !.value = n]
        /\ UNCHANGED <<registryVars, listenerVars,
                       adminNotes, now, aiProvider, isRunning, retryInterval,
                   timers, asyncVars>>

onMalformed_unhandled(L, channel) ==
  [l |-> [L EXCEPT !.live = @ \ Callbacks(@, channel)],
   threw |-> Callbacks(L.live, channel) # {},
   ran |-> Cardinality(Callbacks(L.live, channel))]

\* a payload that is not JSON reaches the callbacks of channel: JSON.parse
\* throws inside each callback's try and the catch logs it
onMalformed(L, channel) ==
  [l |-> L, threw |-> FALSE, ran |-> Cardinality(Callbacks(L.live, channel))]

\* a NOTIFY with a malformed payload; value is the number of callbacks run,
\* arg.id the position of the channel in Channels
DeliverMalformed ==
  \E c \in 1..Len(Channels) :
    \E r \in {onMalformed(Listener, Channels[c])} :
      /\ SetListener(r.l)
      /\ last' = [Done("deliverMalformed", IF r.threw THEN "threw" ELSE "returned",
                       DB, [NoArg EXCEPT !.id = c])
                    EXCEPT !.value = r.ran]
      /\ UNCHANGED <<registryVars, failedJobs, jobRetryLog, aiSummaries,
                     adminNotes, nextId, now, aiProvider, isRunning,
                     retryInterval, timers, asyncVars>>

NextListener ==
  \/ StartListening
  \/ StopListening
  \/ DeliverNoteCreated
  \/ DeliverMalformed

\* the services initialized, one note stored
SpecListener == InitRetry /\ [][NextListener]_vars

\* every listen and every unlisten succeeds
NextListenerOk ==
  \/ StartListeningWith({0})
  \/ StopListeningWith({{}})
  \/ DeliverNoteCreated

SpecListenerOk == InitRetry /\ [][NextListenerOk]_vars

\* ------------------------------------------------------- switchProvider
\* AiProviderFactory.providers
SupportedProviders == {"claude", "openai"}
\* the arguments switchProvider is called with: a type the factory has no
\* provider for, a blank key, no model ("") and a model
SwitchTypes == {"claude", "openai", "palm"}
ApiKeys == {" ", "sk-1"}
SwitchModels == {"", "gpt-4"}

\* BaseAiProvider.validateConfig: !apiKey || apiKey.trim() === ''
Blank(apiKey) == apiKey \in {"", " "}

initialize_novalidate(type, apiKey) ==
  [threw |-> FALSE, code |-> "", retryable |-> FALSE,
   obj |-> [type |-> type, initialized |-> TRUE, client |-> type = "claude"]]

\* initialize of a provider object just constructed: validateConfig throws
\* before config, initialized or the Claude client are set
initialize(type, apiKey) ==
  IF Blank(apiKey)
    THEN [threw |-> TRUE, code |-> "INVALID_CONFIG", retryable |-> FALSE,
          obj |-> [type |-> type, initialized |-> FALSE, client |-> FALSE]]
    ELSE [threw |-> FALSE, code |-> "", retryable |-> FALSE,
          obj |-> [type |-> type, initialized |-> TRUE, client |-> type = "claude"]]

\* AiProviderFactory.createProvider; a provider object is named by its type.
\* obj is the object it constructed, provider what it returned.
createProvider(type, apiKey) ==
  IF type \notin SupportedProviders
    THEN [threw |-> TRUE, provider |-> "undefined", code |-> "Unsupported",
          retryable |-> FALSE, obj |-> NoProvider]
  ELSE IF initialize(type, apiKey).threw
    THEN [threw |-> TRUE, provider |-> "undefined",
          code |-> initialize(type, apiKey).code,
          retryable |-> initialize(type, apiKey).retryable,
          obj |-> initialize(type, apiKey).obj]
  ELSE [threw |-> FALSE, provider |-> type, code |-> "", retryable |-> FALSE,
        obj |-> initialize(type, apiKey).obj]

\* switchProviderSchema of the route
SchemaAccepts(type, apiKey) == type \in {"claude", "openai"} /\ apiKey # ""

\* the fields of the AIService instance of svc
Instance(svc) == [aiProvider |-> aiProvider[svc],
                  providerType |-> providerType[svc], model |-> model[svc]]

\* the instance switchProvider is called on: POST /provider/switch constructs
\* its own from the environment, a direct call uses the service's
InstanceAtCall(svc) ==
  IF svc = "rest" /\ \A p \in pending : p.svc # "rest"
    THEN [aiProvider |-> ConstructedType, providerType |-> ConstructedType,
          model |-> ConstructedModel]
    ELSE Instance(svc)

SetInstance(svc, inst) ==
  /\ aiProvider' = [aiProvider EXCEPT ![svc] = inst.aiProvider]
  /\ providerType' = [providerType EXCEPT ![svc] = inst.providerType]
  /\ model' = [model EXCEPT ![svc] = inst.model]

\* model || AiProviderFactory.getDefaultModel(providerType)
ModelOrDefault(type, mdl) == IF mdl # "" THEN mdl ELSE getDefaultModel(type)

Activate_keepmodel(inst, p) ==
  [aiProvider |-> p.type, providerType |-> p.type, model |-> inst.model]

\* the three assignments that follow the health check, with no await between
Activate(inst, p) ==
  [aiProvider |-> p.type, providerType |-> p.type,
   model |-> ModelOrDefault(p.type, p.model)]

switchProviderEnd_early(inst, p, healthy) ==
  IF ~healthy THEN [inst |-> Activate(inst, p), threw |-> TRUE]
  ELSE [inst |-> Activate(inst, p), threw |-> FALSE]

\* switchProvider from the point where healthCheck() has resolved
switchProviderEnd(inst, p, healthy) ==
  IF ~healthy THEN [inst |-> inst, threw |-> TRUE]
  ELSE [inst |-> Activate(inst, p), threw |-> FALSE]

SwitchArg(svc, type, apiKey, mdl, healthy) ==
  [svc |-> svc, type |-> type, apiKey |-> apiKey, model |-> mdl,
   healthy |-> healthy]

\* switchProvider up to its await of healthCheck(): createProvider throws, or
\* the candidate is constructed and the call is suspended
SwitchProviderBegin ==
  \E svc \in Switched, type \in SwitchTypes, apiKey \in ApiKeys,
     mdl \in SwitchModels :
    /\ svc = "rest" => SchemaAccepts(type, apiKey) /\ \A p \in pending : p.svc # "rest"
    /\ SetInstance(svc, InstanceAtCall(svc))
    /\ IF createProvider(type, apiKey).threw
         THEN /\ pending' = pending
              /\ last' = Done("switchProvider", "threw", DB,
                              SwitchArg(svc, type, apiKey, mdl, FALSE))
         ELSE /\ pending' = pending \cup {[svc |-> svc, type |-> type,
                                            apiKey |-> apiKey, model |-> mdl]}
              /\ Cardinality(pending') <= MaxPending
              /\ pending' # pending
              /\ last' = Done("healthCheck", "started", DB,
                              SwitchArg(svc, type, apiKey, mdl, FALSE))
    /\ UNCHANGED <<listenerVars, env, requests, activated, failedJobs,
                   jobRetryLog, aiSummaries, adminNotes, nextId, now,
                   isRunning, retryInterval,
                   timers, provider, asyncVars>>

\* healthCheck() resolves and switchProvider runs to its end; the route then
\* writes process.env. activated is the provider the last successful switch
\* activated, and the provider and model each switch of a sender activated
\* together.
SwitchProviderEnd ==
  \E p \in pending, healthy \in BOOLEAN :
    \E r \in {switchProviderEnd(Instance(p.svc), p, healthy)} :
      /\ SetInstance(p.svc, r.inst)
      /\ pending' = pending \ {p}
      /\ env' = IF p.svc = "rest" /\ ~r.threw
                  THEN [AI_PROVIDER |-> p.type,
                        AI_MODEL |-> IF p.model # "" THEN p.model ELSE env.AI_MODEL]
                  ELSE env
      /\ activated' = IF r.threw THEN activated
                        ELSE [ref |-> p.type,
                              pairs |-> activated.pairs \cup
                                 {[svc |-> p.svc, provider |-> p.type,
                                   model |-> ModelOrDefault(p.type, p.model)] :
                                  x \in {p.svc} \cap Senders}]
      /\ last' = Done("switchProvider", IF r.threw THEN "threw" ELSE "returned",
                      DB, SwitchArg(p.svc, p.type, p.apiKey, p.model, healthy))
      /\ UNCHANGED <<listenerVars, requests, failedJobs, jobRetryLog,
                     aiSummaries, adminNotes, nextId, now, isRunning,
                     retryInterval,
                   timers, provider, asyncVars>>

\* generateSummary up to its await: the request is built with this.model and
\* handed to this.aiProvider.generateCompletion
GenerateSummarySend ==
  \E svc \in Senders :
    /\ aiProvider[svc] # "undefined"
    /\ requests' = requests \cup {[svc |-> svc, provider |-> aiProvider[svc],
                                    model |-> model[svc]]}
    /\ requests' # requests
    /\ Cardinality(requests') <= MaxRequests
    /\ last' = Done("generateSummary", "started", DB,
                    [svc |-> svc, provider |-> aiProvider[svc],
                     model |-> model[svc]])
    /\ UNCHANGED <<listenerVars, providerType, model, env, pending, activated,
                   failedJobs, jobRetryLog, aiSummaries, adminNotes, nextId,
                   now, aiProvider, isRunning, retryInterval,
                   timers, provider, asyncVars>>

\* the provider a request was handed to answers it
GenerateSummaryComplete ==
  \E req \in requests :
    /\ requests' = requests \ {req}
    /\ last' = Done("generateCompletion", "returned", DB, req)
    /\ UNCHANGED <<listenerVars, providerType, model, env, pending, activated,
                   failedJobs, jobRetryLog, aiSummaries, adminNotes, nextId,
                   now, aiProvider, isRunning, retryInterval,
                   timers, provider, asyncVars>>

NextProvider ==
  \/ SwitchProviderBegin
  \/ SwitchProviderEnd
  \/ GenerateSummarySend
  \/ GenerateSummaryComplete

\* every service initialized with the provider of the environment
SpecProvider == InitRetry /\ [][NextProvider]_vars

\* ------------------------------------------------- the provider objects
\* AiRequest values: a model of each provider and one of neither, maxTokens
\* around both ceilings, temperature in tenths around both maxima, and the
\* number of messages
ClaudeMaxTokens == 8192
OpenAiMaxTokens == 16384
AiRequests ==
  [model : {"claude-3-5-sonnet-20241022", "gpt-4-turbo", "text-bison-001"},
   maxTokens : {ClaudeMaxTokens, ClaudeMaxTokens + 1, OpenAiMaxTokens,
                OpenAiMaxTokens + 1},
   temperature : {-1, 0, 10, 11, 20, 21}, messages : 0..1]

\* what the network call does: it answers, or fails with an HTTP status
\* (mentionsHttp4: the error body contains "HTTP 4"), a timeout or a
\* connection reset, or with something else
NetworkOutcomes ==
  {[kind |-> k, status |-> 0, mentionsHttp4 |-> FALSE] :
     k \in {"ok", "timeout", "reset", "other"}}
    \cup [kind : {"http"}, status : {400, 401, 404, 408, 429, 500, 503},
          mentionsHttp4 : BOOLEAN]

\* the calls made: every request with a network that answers, and the
\* summarization request of each model with every network outcome
CompletionInputs ==
  {in \in [req : AiRequests, net : NetworkOutcomes] :
     \/ in.net.kind = "ok"
     \/ /\ in.req.maxTokens = ClaudeMaxTokens
        /\ in.req.temperature = 0
        /\ in.req.messages = 1}

supportedModels(type) ==
  IF type = "claude"
    THEN {"claude-3-5-sonnet-20241022", "claude-3-opus-20240229",
          "claude-3-sonnet-20240229", "claude-3-haiku-20240307"}
    ELSE {"gpt-4", "gpt-4-turbo", "gpt-4-turbo-preview", "gpt-3.5-turbo",
          "gpt-3.5-turbo-16k"}

mapHttpStatusToRetryable(statusCode) ==
  statusCode >= 500 \/ statusCode = 429 \/ statusCode = 408

AiError(code, retryable, network) ==
  [threw |-> TRUE, code |-> code, retryable |-> retryable, network |-> network]

\* ClaudeProvider.validateRequest and OpenAiProvider.validateRequest; "" when
\* the request passes
validateRequest(type, req) ==
  IF req.model \notin supportedModels(type) THEN "UNSUPPORTED_MODEL"
  ELSE IF type = "claude"
    THEN IF req.maxTokens > ClaudeMaxTokens THEN "INVALID_REQUEST"
         ELSE IF req.temperature < 0 \/ req.temperature > 10 THEN "INVALID_REQUEST"
         ELSE ""
    ELSE IF req.maxTokens > OpenAiMaxTokens THEN "INVALID_REQUEST"
         ELSE IF req.temperature < 0 \/ req.temperature > 20 THEN "INVALID_REQUEST"
         ELSE IF req.messages = 0 THEN "INVALID_REQUEST"
         ELSE ""

\* ClaudeProvider.handleError: the SDK throws an APIError, with the status of
\* the response or, for a timeout or a lost connection, with none
\* (error.status || 500)
handleErrorClaude(net) ==
  CASE net.kind = "http" ->
         AiError("CLAUDE_API_ERROR", mapHttpStatusToRetryable(net.status), TRUE)
    [] net.kind \in {"timeout", "reset"} ->
         AiError("CLAUDE_API_ERROR", mapHttpStatusToRetryable(500), TRUE)
    [] OTHER -> AiError("UNKNOWN_ERROR", FALSE, TRUE)

\* OpenAiProvider.handleError: makeRequest throws Error("HTTP <status>: <body>")
\* for a response that is not ok, fetch an AbortError on the timeout
handleErrorOpenAi(net) ==
  CASE net.kind = "timeout" -> AiError("TIMEOUT_ERROR", TRUE, TRUE)
    [] net.kind = "http" /\ (net.status \div 100 = 4 \/ net.mentionsHttp4) ->
         AiError("OPENAI_API_ERROR", mapHttpStatusToRetryable(net.status), TRUE)
    [] net.kind = "reset" -> AiError("NETWORK_ERROR", TRUE, TRUE)
    [] OTHER -> AiError("UNKNOWN_ERROR", FALSE, TRUE)

\* generateCompletion of provider object obj
generateCompletion(obj, req, net) ==
  IF ~obj.initialized THEN AiError("PROVIDER_NOT_INITIALIZED", FALSE, FALSE)
  ELSE IF obj.type = "claude" /\ ~obj.client
    THEN AiError("CLIENT_NOT_INITIALIZED", FALSE, FALSE)
  ELSE IF validateRequest(obj.type, req) # ""
    THEN AiError(validateRequest(obj.type, req), FALSE, FALSE)
  ELSE IF net.kind = "ok"
    THEN [threw |-> FALSE, code |-> "", retryable |-> FALSE, network |-> TRUE]
  ELSE IF obj.type = "claude" THEN handleErrorClaude(net)
  ELSE handleErrorOpenAi(net)

healthCheck_rethrow(obj, probe) ==
  IF ~obj.initialized \/ (obj.type = "claude" /\ ~obj.client)
    THEN [threw |-> FALSE, value |-> "false", network |-> FALSE]
  ELSE IF probe = "fails" THEN [threw |-> TRUE, value |-> "", network |-> TRUE]
  ELSE [threw |-> FALSE, network |-> TRUE,
        value |-> IF probe = "nonempty" THEN "true" ELSE "false"]

\* healthCheck, value the JavaScript value it resolves to: Claude reads
\* response.content.length inside the try, OpenAI returns
\* response.choices && response.choices.length > 0
healthCheck(obj, probe) ==
  IF ~obj.initialized \/ (obj.type = "claude" /\ ~obj.client)
    THEN [threw |-> FALSE, value |-> "false", network |-> FALSE]
  ELSE [threw |-> FALSE, network |-> TRUE,
        value |-> CASE probe = "nonempty" -> "true"
                    [] probe = "nolist" /\ obj.type = "openai" -> "undefined"
                    [] OTHER -> "false"]

ProviderCall(op, r, arg, obj) ==
  /\ provider' = obj
  /\ last' = [Done(op, IF r.threw THEN "threw" ELSE "returned", DB, arg)
                EXCEPT !.value = r]
  /\ UNCHANGED <<providerType, model, env, pending, requests, activated,
                 listenerVars, failedJobs, jobRetryLog, aiSummaries, adminNotes,
                 nextId, now, aiProvider, isRunning, retryInterval, timers, asyncVars>>

CreateProvider ==
  \E type \in SwitchTypes, apiKey \in ApiKeys \cup {""} :
    \E r \in {createProvider(type, apiKey)} :
      ProviderCall("createProvider", r, [type |-> type, apiKey |-> apiKey],
                   IF r.obj = NoProvider THEN provider ELSE r.obj)

GenerateCompletion ==
  \E in \in CompletionInputs :
    /\ provider # NoProvider
    /\ ProviderCall("provider.generateCompletion",
                    generateCompletion(provider, in.req, in.net), in, provider)

\* the probe call fails, or answers with an empty list, a non-empty list, or
\* a body without the list
HealthCheck ==
  \E probe \in {"fails", "empty", "nonempty", "nolist"} :
    /\ provider # NoProvider
    /\ ProviderCall("provider.healthCheck", healthCheck(provider, probe),
                    [probe |-> probe], provider)

NextCalls ==
  \/ CreateProvider
  \/ GenerateCompletion
  \/ HealthCheck

SpecCalls == InitRetry /\ [][NextCalls]_vars

\* ------------------------------------------------ the backoff function alone
CalculateNextRetry ==
  \E attemptCount \in 1..MaxAttempt, k \in BackoffRands :
    /\ last' = [Done("calculateNextRetry", "returned", DB,
                     [NoArg EXCEPT !.id = attemptCount])
                  EXCEPT !.value = calculateNextRetry(attemptCount, k, now)]
    /\ UNCHANGED <<registryVars, listenerVars,
                   failedJobs, jobRetryLog, aiSummaries, adminNotes, nextId, now,
                   aiProvider, isRunning, retryInterval,
                   timers, asyncVars>>

NextBackoff == CalculateNextRetry

SpecBackoff == Init /\ [][NextBackoff]_vars

\* ------------------------------------ the schedulers of one process
\* index.ts constructs one RetryService and onReady starts it; the
\* failed-jobs routes construct their own, and POST /processor/start and
\* /processor/stop call that one.  isRunning and retryInterval are fields of
\* the instance, the timers are the event loop's.
\* startRetryProcessor on the instance with fields s; set: a timer was set
startRetryProcessor(s) ==
  IF s.isRunning THEN [s |-> s, set |-> 0]
  ELSE [s |-> [isRunning |-> TRUE, retryInterval |-> TRUE], set |-> 1]

\* stopRetryProcessor on the instance with fields s; cleared: a timer was
\* cleared
stopRetryProcessor(s) ==
  [s |-> [isRunning |-> FALSE, retryInterval |-> FALSE],
   cleared |-> IF s.retryInterval THEN 1 ELSE 0]

\* POST /processor/start
PostProcessorStart ==
  \E r \in {startRetryProcessor(routes)} :
    /\ routes' = r.s
    /\ timers' = timers + r.set
    /\ last' = Done("postProcessorStart", "returned", DB, NoArg)
    /\ UNCHANGED <<registryVars, listenerVars, failedJobs, jobRetryLog,
                   aiSummaries, adminNotes, nextId, now, aiProvider, isRunning,
                   retryInterval, attempts, starting>>

\* POST /processor/stop
PostProcessorStop ==
  \E r \in {stopRetryProcessor(routes)} :
    /\ routes' = r.s
    /\ timers' = timers - r.cleared
    /\ last' = Done("postProcessorStop", "returned", DB, NoArg)
    /\ UNCHANGED <<registryVars, listenerVars, failedJobs, jobRetryLog,
                   aiSummaries, adminNotes, nextId, now, aiProvider, isRunning,
                   retryInterval, attempts, starting>>

NextProcess ==
  \/ PostProcessorStart
  \/ PostProcessorStop
  \/ TimerTick
  \/ RecordFailedJob
  \/ Advance

\* the process after start-up: onReady has started the retry processor of
\* index.ts
SpecProcess == InitRetry /\ [][NextProcess]_vars

\* ------------------------------------------- retryJob, await by await
\* A retryJob call suspends at each of its awaits and other callbacks run in
\* between: a timer tick fires whether or not the previous processRetries has
\* returned, and POST /retry/:jobId arrives at any time.  attempts holds the
\* calls in flight: job is the row as the caller read it, rest the rows of the
\* tick's selection still to come, pc the await the call is at.
Attempt(batch) == [job |-> Head(batch), rest |-> Tail(batch), pc |-> "setRetrying"]

RemoveAt(seq, i) == SubSeq(seq, 1, i - 1) \o SubSeq(seq, i + 1, Len(seq))

\* the call of attempt i moves on to the await pc
Goto(i, pc) == attempts' = [attempts EXCEPT ![i].pc = pc]

\* retryJob returned: the for loop of processRetries takes the next row, and
\* with none left the call is over
Returned(i) ==
  attempts' = IF attempts[i].rest = <<>> THEN RemoveAt(attempts, i)
              ELSE [attempts EXCEPT ![i] = Attempt(attempts[i].rest)]

\* an error left retryJob: the for loop is left, retryJobById rejects
ThrewOut(i) == attempts' = RemoveAt(attempts, i)

\* whether the statement at an await fails: here the store answers every
\* statement, and what fails is the handler (RetryJobExecute) or a foreign key
StoreFails == {FALSE}

AttemptUnchanged ==
  UNCHANGED <<registryVars, listenerVars, adminNotes, now, aiProvider,
              isRunning, retryInterval, timers, last, routes, starting>>

\* the timer fires: processRetries selects the due rows and calls retryJob for
\* the first; a failed select is caught and logged
ProcessRetriesSelect ==
  /\ timers > 0
  /\ Len(attempts) < MaxInFlight
  /\ \E bad \in StoreFails, B \in Batches(failedJobs, now) :
       attempts' = IF bad \/ B = {} THEN attempts
                   ELSE Append(attempts, Attempt(InIdOrder(B)))
  /\ UNCHANGED <<failedJobs, jobRetryLog, aiSummaries, nextId>>
  /\ AttemptUnchanged

\* POST /retry/:jobId: the row is selected by id alone and handed to retryJob
RetryJobByIdSelect ==
  /\ Len(attempts) < MaxInFlight
  /\ \E id \in JobIds(DB), bad \in StoreFails :
       attempts' = IF bad THEN attempts
                   ELSE Append(attempts, Attempt(<<RowOf(DB, id)>>))
  /\ UNCHANGED <<failedJobs, jobRetryLog, aiSummaries, nextId>>
  /\ AttemptUnchanged

\* UPDATE failed_jobs SET status = 'retrying' WHERE id = job.id
RetryJobSetRetrying ==
  \E i \in 1..Len(attempts), bad \in StoreFails :
    /\ attempts[i].pc = "setRetrying"
    /\ IF bad THEN Goto(i, "log") /\ UNCHANGED failedJobs
       ELSE /\ failedJobs' = {IF j.id = attempts[i].job.id THEN SetRetrying(j)
                                                            ELSE j : j \in failedJobs}
            /\ Goto(i, "execute")
    /\ UNCHANGED <<jobRetryLog, aiSummaries, nextId>>
    /\ AttemptUnchanged

\* await this.executeJob(job.jobType, job.payload)
RetryJobExecute ==
  \E i \in 1..Len(attempts),
     f \in {f \in OrchFaults : f \cap {"notifyJobFailed", "notifySummaryFailed"} = {}},
     k \in RetryRands :
    /\ attempts[i].pc = "execute"
    /\ \E r \in {executeJob(DB, attempts[i].job, f, k, now)} :
         /\ Commit(r.db)
         /\ Goto(i, IF r.threw THEN "log" ELSE "delete")
    /\ AttemptUnchanged

\* DELETE FROM failed_jobs WHERE id = job.id
RetryJobDelete ==
  \E i \in 1..Len(attempts), bad \in StoreFails :
    /\ attempts[i].pc = "delete"
    /\ IF bad \/ DeleteJobFails(DB, attempts[i].job.id, {})
         THEN Goto(i, "log") /\ UNCHANGED failedJobs
         ELSE /\ failedJobs' = {j \in failedJobs : j.id # attempts[i].job.id}
              /\ Goto(i, "notify")
    /\ UNCHANGED <<jobRetryLog, aiSummaries, nextId>>
    /\ AttemptUnchanged

\* pg_notify('job_retry_success') inside the try
RetryJobNotify ==
  \E i \in 1..Len(attempts), bad \in StoreFails :
    /\ attempts[i].pc = "notify"
    /\ IF bad THEN Goto(i, "log") ELSE Returned(i)
    /\ UNCHANGED <<failedJobs, jobRetryLog, aiSummaries, nextId>>
    /\ AttemptUnchanged

\* handleRetryFailure: INSERT INTO job_retry_log, attemptNumber from the row as
\* read
HandleRetryFailureLog ==
  \E i \in 1..Len(attempts), bad \in StoreFails :
    /\ attempts[i].pc = "log"
    /\ IF bad \/ InsertRetryLogFails(DB, attempts[i].job.id, {})
         THEN ThrewOut(i) /\ UNCHANGED jobRetryLog
         ELSE /\ jobRetryLog' = jobRetryLog (+)
                   SetToBag({[failedJobId |-> attempts[i].job.id,
                              attemptNumber |-> attempts[i].job.attemptCount + 1]})
              /\ BagCardinality(jobRetryLog') <= MaxLog
              /\ Goto(i, "update")
    /\ UNCHANGED <<failedJobs, aiSummaries, nextId>>
    /\ AttemptUnchanged

\* handleRetryFailure: UPDATE failed_jobs ... WHERE id = job.id, to failed with
\* a new nextRetryAt or to abandoned
HandleRetryFailureUpdate ==
  \E i \in 1..Len(attempts), bad \in StoreFails, k \in RetryRands :
    /\ attempts[i].pc = "update"
    /\ \E job \in {attempts[i].job} :
         IF bad THEN ThrewOut(i) /\ UNCHANGED failedJobs
         ELSE IF HasMoreRetries(job)
           THEN /\ failedJobs' = {IF j.id = job.id
                                    THEN Reschedule(j, job.attemptCount + 1, k, now)
                                    ELSE j : j \in failedJobs}
                /\ Returned(i)
         ELSE /\ failedJobs' = {IF j.id = job.id
                                  THEN Abandon(j, job.attemptCount + 1)
                                  ELSE j : j \in failedJobs}
              /\ Goto(i, "notifyAbandoned")
    /\ UNCHANGED <<jobRetryLog, aiSummaries, nextId>>
    /\ AttemptUnchanged

\* handleRetryFailure: pg_notify('job_abandoned'), not caught
HandleRetryFailureNotify ==
  \E i \in 1..Len(attempts), bad \in StoreFails :
    /\ attempts[i].pc = "notifyAbandoned"
    /\ IF bad THEN ThrewOut(i) ELSE Returned(i)
    /\ UNCHANGED <<failedJobs, jobRetryLog, aiSummaries, nextId>>
    /\ AttemptUnchanged

NextAttempts ==
  \/ RecordFailedJob
  \/ Advance
  \/ ProcessRetriesSelect
  \/ RetryJobByIdSelect
  \/ RetryJobSetRetrying
  \/ RetryJobExecute
  \/ RetryJobDelete
  \/ RetryJobNotify
  \/ HandleRetryFailureLog
  \/ HandleRetryFailureUpdate
  \/ HandleRetryFailureNotify

SpecAttempts == InitRetry /\ [][NextAttempts]_vars

\* --------------------------------------- every operation on failed_jobs
\* recordFailedJob with each of the arguments it is called with
RecordFailedJobAny == RecordFailedJobWith(RetryRands, RecordInputs)

\* recordFailedJob, the scheduler's ticks, POST /retry/:jobId and
\* DELETE /cleanup in any order
NextJobs ==
  \/ RecordFailedJobAny
  \/ TimerTick
  \/ RetryJobById
  \/ CleanupOldJobs
  \/ Advance

SpecJobs == InitRetry /\ [][NextJobs]_vars

\* ------------------------------------------------- ticks that keep coming
\* recordFailedJob's maxRetries parameter: the least value, the one
\* test-retry.ts passes and the default
LiveInputs ==
  [jobType : {"admin_note_summary", "other"},
   maxRetries : {1, TestMaxRetries, OrchestratorMaxRetries}]

RecordFailedJobLive == RecordFailedJobWith(RetryRands, LiveInputs)

\* a tick during which the store and the provider answer
TimerTickOk ==
  /\ timers > 0
  /\ \E k \in RetryRands, B \in Batches(failedJobs, now) :
       \E r \in {processRetries(DB, B, {}, k, now)} :
          /\ CommitWithin(r.db, MaxJobs, MaxJobs, MaxJobs)
          /\ last' = Done("processRetries",
                          IF r.threw THEN "threw" ELSE "returned", r.db, NoArg)
  /\ UNCHANGED <<registryVars, listenerVars, adminNotes, now, aiProvider,
                 isRunning, retryInterval, timers, asyncVars>>

NextLive ==
  \/ RecordFailedJobLive
  \/ TimerTickOk
  \/ Advance

\* the interval timer stays set, so a tick that can run does run
SpecLive == InitRetry /\ [][NextLive]_vars /\ WF_vars(TimerTickOk)

\* ------------------------------------- startListening, await by await
\* A startListening call suspends at each await of notificationClient.listen
\* and other callbacks run in between.  starting holds the calls in flight,
\* each as the position in Channels of the listen call it awaits.
\* whether the awaited listen rejects: here every listen resolves (a start in
\* which one rejects is StartListening)
ListenRejects == {FALSE}

\* the call passed the isListening check and awaits the first listen
StartListeningBegin ==
  /\ Len(starting) < MaxInFlight
  /\ starting' = IF isListening THEN starting ELSE Append(starting, 1)
  /\ last' = [Done("startListening", IF isListening THEN "returned" ELSE "started",
                   DB, NoArg) EXCEPT !.value = 0]
  /\ UNCHANGED <<registryVars, listenerVars, failedJobs, jobRetryLog,
                 aiSummaries, adminNotes, nextId, now, aiProvider, isRunning,
                 retryInterval, timers, routes, attempts>>

\* the awaited listen resolves: its subscription is pushed, and the call
\* awaits the next listen or, after the last, sets isListening and returns;
\* or it rejects and the call throws
StartListeningResume ==
  \E i \in 1..Len(starting), rejects \in ListenRejects :
    \E at \in {starting[i]} :
      /\ IF rejects
           THEN /\ starting' = RemoveAt(starting, i)
                /\ UNCHANGED listenerVars
           ELSE /\ nextSub <= MaxSubs
                /\ SetListener([Listen(Listener, Channels[at])
                                  EXCEPT !.isListening = @ \/ at = Len(Channels)])
                /\ starting' = IF at = Len(Channels) THEN RemoveAt(starting, i)
                               ELSE [starting EXCEPT ![i] = at + 1]
      /\ last' = [Done("startListening",
                       CASE rejects -> "threw"
                         [] at = Len(Channels) -> "returned"
                         [] OTHER -> "started",
                       DB, [NoArg EXCEPT !.id = at]) EXCEPT !.value = 1]
      /\ UNCHANGED <<registryVars, failedJobs, jobRetryLog, aiSummaries,
                     adminNotes, nextId, now, aiProvider, isRunning,
                     retryInterval, timers, routes, attempts>>

NextStarting ==
  \/ StartListeningBegin
  \/ StartListeningResume
  \/ DeliverNoteCreated

SpecStarting == InitRetry /\ [][NextStarting]_vars

\* ------------------------------------------------------------ properties
\* getFailedJobsStats: SELECT * FROM failed_jobs, counted by type and status
getFailedJobsStats(jobs) ==
  [total |-> Cardinality(jobs),
   byType |-> [ty \in {j.jobType : j \in jobs} |->
                 Cardinality({j \in jobs : j.jobType = ty})],
   byStatus |-> [st \in {j.status : j \in jobs} |->
                   Cardinality({j \in jobs : j.status = st})]]

\* The step is a call of op: the environment steps change the clock, the notes
\* or a provider and leave last alone.
Call(op) ==
  /\ last'.op = op
  /\ now' = now /\ adminNotes' = adminNotes /\ aiProvider' = aiProvider

\* a step that runs retryJob: a scheduler tick or a manual retry
RetryCall == Call("processRetries") \/ Call("retryJobById")

\* the steps of one orchestration proper
MainSteps == {"selectNotes", "generateCompletion", "insertSummary"}

\* C10: for every attempt number n >= 1 calculateNextRetry(n) takes the base
\* delay from the ladder 60, 300, 900, 1800, 3600 at position min(n, 5), the
\* base delay never decreases with n, and the time returned is later than now
\* by a delay within [0.75 * base, 1.25 * base].
C10_BackoffLadder ==
  last.op = "calculateNextRetry" =>
    LET n == last.arg.id
        base == <<60, 300, 900, 1800, 3600>>[Min(n, 5)]
        delay == last.value - last.at
    IN /\ BaseDelay(n) = base
       /\ BaseDelay(n) <= BaseDelay(n + 1)
       /\ 3 * base <= 4 * delay
       /\ 4 * delay <= 5 * base

\* an attempt beyond the ladder, jittered away from the base delay
C10_Witness ==
  /\ last.op = "calculateNextRetry"
  /\ last.arg.id > 5
  /\ last.value - last.at > 3600

\* C8: a recordFailedJob call whose insert succeeds adds exactly one row, with
\* attemptCount 1, status failed, the maxRetries it was given (3 when the
\* orchestrator made the call) and nextRetryAt 45 to 75 seconds after now,
\* and leaves every other row as it was.
C8_RecordAddsOneJob ==
  [][(Call("recordFailedJob") \/ Call("processAdminNoteCreated"))
       /\ last'.inserted # {}
     => \E j \in failedJobs' :
          /\ j \notin failedJobs
          /\ j.id \notin {x.id : x \in failedJobs}
          /\ failedJobs' = failedJobs \cup {j}
          /\ last'.inserted = {j.id}
          /\ j.attemptCount = 1
          /\ j.status = "failed"
          /\ j.maxRetries = (IF last'.op = "recordFailedJob"
                               THEN last'.arg.maxRetries ELSE 3)
          /\ 45 <= j.nextRetryAt - now
          /\ j.nextRetryAt - now <= 75]_vars

\* recordFailedJob called with maxRetries 2 while another job is stored
C8_Witness ==
  /\ last.op = "recordFailedJob"
  /\ last.arg.maxRetries = 2
  /\ last.inserted # {}
  /\ \E j \in failedJobs : j.id \notin last.inserted /\ j.maxRetries = 3

\* C9: recordFailedJob never throws; when the insert fails it returns with the
\* store unchanged, and when only the job_failed notification fails it returns
\* with the inserted row kept.
C9_RecordNeverThrows ==
  [][Call("recordFailedJob")
     => /\ last'.outcome = "returned"
        /\ "insertFailedJob" \in last'.faulted
             => /\ failedJobs' = failedJobs
                /\ jobRetryLog' = jobRetryLog
                /\ aiSummaries' = aiSummaries
        /\ "notifyJobFailed" \in last'.faulted
             => /\ Cardinality(last'.inserted) = 1
                /\ failedJobs \subseteq failedJobs'
                /\ {j.id : j \in failedJobs' \ failedJobs} = last'.inserted]_vars

\* the notification failed after the row was inserted
C9_Witness ==
  /\ last.op = "recordFailedJob"
  /\ last.outcome = "returned"
  /\ "notifyJobFailed" \in last.faulted
  /\ \E j \in failedJobs : j.id \in last.inserted

\* C2 as claimed: whenever the student of the event has a note, one call of
\* processAdminNoteCreated leaves exactly one new summary row or exactly one
\* new failed_jobs row, whatever fails during the call.
C2_ExactlyOneAlways ==
  [][Call("processAdminNoteCreated") /\ adminNotes[TheEvent.student_id] > 0
     => /\ failedJobs \subseteq failedJobs'
        /\ aiSummaries \sqsubseteq aiSummaries'
        /\ (Cardinality(failedJobs') - Cardinality(failedJobs))
             + (BagCardinality(aiSummaries') - BagCardinality(aiSummaries)) = 1]_vars

\* C2: whenever the student of the event has a note, one call of
\* processAdminNoteCreated leaves exactly one new summary row or exactly one
\* new failed_jobs row, never both and never neither, unless the insert of the
\* failed_jobs row itself fails: then the call leaves neither.
C2_ExactlyOneUnlessInsertFails ==
  [][Call("processAdminNoteCreated") /\ adminNotes[TheEvent.student_id] > 0
     => LET dj == Cardinality(failedJobs') - Cardinality(failedJobs)
            ds == BagCardinality(aiSummaries') - BagCardinality(aiSummaries)
        IN /\ failedJobs \subseteq failedJobs'
           /\ aiSummaries \sqsubseteq aiSummaries'
           /\ dj = Cardinality(last'.inserted)
           /\ ds = last'.summarized
           /\ IF "insertFailedJob" \in last'.faulted
                THEN dj = 0 /\ ds = 0
                ELSE dj + ds = 1]_vars

\* the provider call and both notifications failed: one failed_jobs row only
C2_Witness ==
  /\ last.op = "processAdminNoteCreated"
  /\ {"generateCompletion", "notifyJobFailed", "notifySummaryFailed"}
       \subseteq last.faulted
  /\ Cardinality(last.inserted) = 1
  /\ last.summarized = 0
  /\ \E j \in failedJobs : j.id \in last.inserted

\* C3 as claimed: processAdminNoteCreated returns normally whatever step
\* fails, and every failure of the history read, of the provider call (an
\* uninitialized provider included) or of the summary insert has become a
\* recorded failed_jobs row when it returns.
C3_FailureAlwaysRecorded ==
  [][Call("processAdminNoteCreated")
     => /\ last'.outcome = "returned"
        /\ (last'.faulted \cap MainSteps # {} \/ last'.uninitialized)
             => \E j \in failedJobs' \ failedJobs :
                  /\ last'.inserted = {j.id}
                  /\ j.jobType = "admin_note_summary"
                  /\ j.payload = TheEvent]_vars

\* C3: processAdminNoteCreated returns normally whatever step fails, and every
\* failure of the history read, of the provider call (an uninitialized
\* provider included) or of the summary insert has become a recorded
\* failed_jobs row when it returns, unless the insert of that row fails as
\* well: then the failure is only logged and the store is left unchanged.
C3_NeverThrowsRecordsUnlessInsertFails ==
  [][Call("processAdminNoteCreated")
     => /\ last'.outcome = "returned"
        /\ (last'.faulted \cap MainSteps # {} \/ last'.uninitialized)
             => IF "insertFailedJob" \in last'.faulted
                  THEN /\ failedJobs' = failedJobs
                       /\ aiSummaries' = aiSummaries
                       /\ last'.inserted = {}
                  ELSE \E j \in failedJobs' \ failedJobs :
                         /\ last'.inserted = {j.id}
                         /\ j.jobType = "admin_note_summary"
                         /\ j.payload = TheEvent]_vars

\* the provider was used before it was initialized: the call returned and
\* recorded the failure
C3_Witness ==
  /\ last.op = "processAdminNoteCreated"
  /\ last.outcome = "returned"
  /\ last.uninitialized
  /\ \E j \in failedJobs : j.id \in last.inserted

\* the failure handling of a retry step wrote its log entry and its update
HandlingWritten == last'.faulted \cap {"insertRetryLog", "updateJob"} = {}

\* the job_retry_log rows of job id, as a bag
LogEntriesOf(log, id) == [e \in LogRowsOf(log, id) |-> log[e]]

\* C4: when retrying a job fails (setting it to retrying or its handler) and
\* the job's attemptCount was maxRetries - 1, the failure handling that writes
\* its log entry and its update leaves the job with status abandoned and
\* attemptCount = maxRetries, also when the job_abandoned notification fails;
\* and no scheduler tick ever starts or changes a job that is abandoned.
C4_LastFailureAbandons ==
  [][/\ RetryCall /\ HandlingWritten
          => \A j \in failedJobs :
               (/\ j.id \in last'.handled
                /\ j.id \notin last'.executed
                /\ j.attemptCount = j.maxRetries - 1)
               => /\ j.id \in last'.abandoned
                  /\ \E x \in failedJobs' :
                       /\ x.id = j.id
                       /\ x.status = "abandoned"
                       /\ x.attemptCount = j.maxRetries
     /\ Call("processRetries")
          => \A j \in failedJobs :
               j.status = "abandoned"
               => j \in failedJobs' /\ j.id \notin last'.started]_vars

\* a tick retried a due job while a job abandoned after its handler had
\* failed on its last attempt was stored, and left it alone
C4_Witness ==
  /\ last.op = "processRetries"
  /\ last.started # {}
  /\ \E j \in failedJobs :
       /\ j.jobType = "other"
       /\ j.status = "abandoned"
       /\ j.attemptCount = j.maxRetries
       /\ j.id \notin last.started
       /\ BagCardinality(LogEntriesOf(jobRetryLog, j.id)) = j.maxRetries - 1

\* C6: when retrying a job fails and newAttemptCount = attemptCount + 1 is
\* below maxRetries, the failure handling that writes its log entry and its
\* update appends exactly one job_retry_log entry for the job, with
\* attemptNumber = newAttemptCount, and leaves the job with status failed,
\* attemptCount = newAttemptCount and nextRetryAt = now + the backoff delay of
\* newAttemptCount, which is later than now.
C6_FailureReschedules ==
  [][RetryCall /\ HandlingWritten
     => \A j \in failedJobs :
          (/\ j.id \in last'.handled
           /\ j.id \notin last'.executed
           /\ j.attemptCount + 1 < j.maxRetries)
          => LET newAttemptCount == j.attemptCount + 1
                 entry == [failedJobId |-> j.id, attemptNumber |-> newAttemptCount]
                 base == <<60, 300, 900, 1800, 3600>>[Min(newAttemptCount, 5)]
             IN /\ LogEntriesOf(jobRetryLog', j.id)
                     = LogEntriesOf(jobRetryLog, j.id) (+) SetToBag({entry})
                /\ \E x \in failedJobs' :
                     /\ x.id = j.id
                     /\ x.status = "failed"
                     /\ x.attemptCount = newAttemptCount
                     /\ x.nextRetryAt > now
                     /\ 3 * base <= 4 * (x.nextRetryAt - now)
                     /\ 4 * (x.nextRetryAt - now) <= 5 * base
                     /\ \E k \in RetryRands :
                          x.nextRetryAt = now + FinalDelay(newAttemptCount, k)]_vars

\* a tick ran a job whose handler threw on its first retry: rescheduled
C6_Witness ==
  /\ last.op = "processRetries"
  /\ \E j \in failedJobs :
       /\ j.id \in last.rescheduled
       /\ j.id \notin last.executed
       /\ j.jobType = "other"
       /\ j.status = "failed"
       /\ j.attemptCount = 2
       /\ j.nextRetryAt > last.at
       /\ BagCardinality(LogEntriesOf(jobRetryLog, j.id)) = 1

\* C7: every job a scheduler tick starts retrying had, when the tick scanned
\* the store, status failed, nextRetryAt <= now and attemptCount < maxRetries,
\* and one tick starts at most 10 jobs.
C7_ScanSelectsDue ==
  [][Call("processRetries")
     => /\ \A id \in last'.started :
             \E j \in failedJobs :
               /\ j.id = id
               /\ j.status = "failed"
               /\ j.nextRetryAt <= now
               /\ j.attemptCount < j.maxRetries
        /\ Cardinality(last'.started) <= 10]_vars

\* a tick started 10 jobs and left a due one, next to a retrying, an abandoned
\* and a not yet due job
C7_Witness ==
  /\ last.op = "processRetries"
  /\ Cardinality(last.started) = 10
  /\ \E j \in failedJobs :
       /\ j.id \notin last.started
       /\ j.status = "failed"
       /\ j.nextRetryAt <= last.at
       /\ j.attemptCount < j.maxRetries
  /\ \E j \in failedJobs : j.status = "retrying" /\ j.id \notin last.started
  /\ \E j \in failedJobs : j.status = "abandoned" /\ j.id \notin last.started
  /\ \E j \in failedJobs : j.nextRetryAt > last.at /\ j.lineage = 1

\* C1: for a note-summary job whose orchestration fails on every attempt, the
\* stored attemptCount has grown with each failed attempt made for the event
\* and no more than maxRetries attempts have been made for it.
C1_AttemptsCountedAndBounded ==
  \A j \in failedJobs :
    j.jobType = "admin_note_summary"
    => /\ j.attemptCount >= j.lineage
       /\ j.lineage <= j.maxRetries

\* C5: when the handler of a retried job returns normally and no operation of
\* the retry fails for a reason of its own, the job's row is deleted, the row
\* no longer counts in getFailedJobsStats, and the job is not handed to the
\* retry-failure handling, whatever log entries reference it.
C5_SuccessDeletesJob ==
  [][RetryCall /\ last'.faulted = {}
     => /\ \A id \in last'.executed :
             /\ id \in last'.succeeded
             /\ id \notin last'.handled
             /\ id \notin {j.id : j \in failedJobs'}
        /\ getFailedJobsStats(failedJobs').total
             = getFailedJobsStats(failedJobs).total - Cardinality(last'.executed)]_vars

\* C11: a job whose jobType executeJob does not know stays in the failed
\* state without progressing, whatever ticks and manual retries have run: its
\* attemptCount is the one it was recorded with and it is not abandoned.
C11_UnknownTypeStaysFailed ==
  \A j \in failedJobs :
    j.jobType = "other" => j.status = "failed" /\ j.attemptCount = 1

\* C12: retryJobById for an id without a failed_jobs row throws and changes
\* neither failed_jobs nor job_retry_log; for an id with a row it has run, when
\* it returns or throws, retryJob on that row and on no other, with the result
\* a scheduler tick has when that row is its whole batch.
C12_RetryJobById ==
  [][Call("retryJobById")
     => LET id == last'.arg.id
        IN IF id \notin {j.id : j \in failedJobs}
             THEN /\ last'.outcome = "threw"
                  /\ last'.started = {}
                  /\ failedJobs' = failedJobs
                  /\ jobRetryLog' = jobRetryLog
             ELSE \/ /\ last'.started = {}
                     /\ last'.outcome = "threw"
                     /\ failedJobs' = failedJobs
                     /\ jobRetryLog' = jobRetryLog
                  \/ /\ last'.started = {id}
                     /\ \E f \in FaultSets, k \in RetryRands :
                          \E r \in {RetryAll(DB, <<RowOf(DB, id)>>, f, k, now)} :
                            /\ failedJobs' = r.db.jobs
                            /\ jobRetryLog' = r.db.log
                            /\ aiSummaries' = r.db.summaries
                            /\ last'.handled = r.db.handled
                            /\ last'.executed = r.db.executed
                            /\ last'.emitted = r.db.emitted
                            /\ (last'.outcome = "threw") = r.threw]_vars

\* a manual retry of an id that is not stored, next to a stored job
C12_Witness ==
  /\ last.op = "retryJobById"
  /\ last.outcome = "threw"
  /\ failedJobs # {}
  /\ last.arg.id \notin {j.id : j \in failedJobs}
  /\ last.started = {}

\* C13: cleanupOldJobs(d) returns after deleting exactly the abandoned rows
\* whose failedAt is d days or more before now, the number it returns is the
\* number of those rows, and every other row is left as it was.
C13_CleanupDeletesOldAbandoned ==
  [][Call("cleanupOldJobs") /\ last'.faulted = {}
     => LET old == {j \in failedJobs :
                      /\ j.status = "abandoned"
                      /\ j.failedAt <= now - last'.arg.id * SecondsPerDay}
        IN /\ last'.outcome = "returned"
           /\ failedJobs' = failedJobs \ old
           /\ last'.value = Cardinality(old)]_vars

\* exactly one live subscription on each configured channel
OnePerChannel(liveSubs) ==
  \A i \in 1..Len(Channels) : Cardinality(Callbacks(liveSubs, Channels[i])) = 1

\* C14: startListening called on a running listener returns without making a
\* subscription: the held and the live subscriptions are unchanged and
\* isRunning() stays true; after a start that made its three subscriptions
\* the listener so holds exactly one live subscription per channel.
C14_StartIdempotent ==
  [][Call("startListening") /\ isListening
     => /\ last'.outcome = "returned"
        /\ last'.value = 0
        /\ isListening'
        /\ subscriptions' = subscriptions /\ live' = live
        /\ (Cardinality(subscriptions) = Len(Channels) /\ live = subscriptions
              => OnePerChannel(live'))]_vars

C14_Witness ==
  /\ last.op = "startListening" /\ last.outcome = "returned" /\ last.value = 0
  /\ isListening
  /\ Cardinality(subscriptions) = Len(Channels)
  /\ OnePerChannel(live)

\* C15: a startListening call in which a channel subscription fails throws,
\* leaves isRunning() false, and leaves no subscription it made held or live.
C15_StartAllOrNothing ==
  [][Call("startListening") /\ last'.arg.id # 0 /\ ~isListening
     => /\ last'.outcome = "threw"
        /\ ~isListening'
        /\ subscriptions' = subscriptions
        /\ live' = live]_vars

\* C16: stopListening on a running listener, when no unlisten rejects, returns
\* with every held subscription ended, the held set empty and isRunning()
\* false; on a listener that is not running it returns and changes nothing.
C16_StopListening ==
  [][Call("stopListening")
     => IF ~isListening
          THEN /\ last'.outcome = "returned"
               /\ isListening' = isListening
               /\ subscriptions' = subscriptions /\ live' = live
          ELSE last'.arg.id = 0
                 => /\ last'.outcome = "returned"
                    /\ live' \cap subscriptions = {}
                    /\ subscriptions' = {}
                    /\ ~isListening']_vars

C16_Witness ==
  /\ last.op = "stopListening" /\ last.outcome = "returned"
  /\ last.value = Len(Channels)
  /\ subscriptions = {} /\ live = {} /\ ~isListening

\* the listener has been started, stopped and started again
Restarted == isListening /\ nextSub > 2 * Len(Channels)

\* C17: when every startListening and stopListening call succeeds, a start
\* that follows a stop leaves the listener running with exactly one live
\* subscription per channel, and a note-created event delivered after it is
\* handed to the orchestrator exactly once.
C17_RestartSingleDispatch ==
  [][/\ Call("startListening") /\ ~isListening /\ nextSub > 1
          => isListening' /\ OnePerChannel(live')
     /\ Call("deliverNoteCreated") /\ Restarted
          => last'.value = 1 /\ last'.summarized + Cardinality(last'.inserted) <= 1]_vars

C17_Witness ==
  /\ last.op = "deliverNoteCreated" /\ last.value = 1 /\ last.summarized = 1
  /\ Restarted /\ OnePerChannel(live)

\* C18: a switchProvider call whose candidate has an unsupported type or a
\* blank API key, or whose health check returns false, throws and leaves the
\* provider, provider type and model of its instance as they were at the
\* call; the instance's fields change only in a call that returns after a
\* health check that returned true, and no other instance changes.
C18_FailedSwitchChangesNothing ==
  [][last'.op \in {"switchProvider", "healthCheck"}
     => LET a == last'.arg
            failed == \/ a.type \notin SupportedProviders
                      \/ Blank(a.apiKey)
                      \/ last'.op = "switchProvider" /\ ~a.healthy
            kept == /\ aiProvider'[a.svc] = InstanceAtCall(a.svc).aiProvider
                    /\ providerType'[a.svc] = InstanceAtCall(a.svc).providerType
                    /\ model'[a.svc] = InstanceAtCall(a.svc).model
        IN /\ failed => last'.op = "switchProvider" /\ last'.outcome = "threw" /\ kept
           /\ ~kept => /\ last'.op = "switchProvider" /\ last'.outcome = "returned"
                       /\ a.healthy
           /\ \A svc \in Services \ {a.svc} :
                /\ aiProvider'[svc] = aiProvider[svc]
                /\ providerType'[svc] = providerType[svc]
                /\ model'[svc] = model[svc]]_vars

C18_Witness ==
  /\ last.op = "switchProvider" /\ last.outcome = "threw"
  /\ last.arg.svc = "listener" /\ last.arg.type = "claude"
  /\ ~Blank(last.arg.apiKey) /\ ~last.arg.healthy
  /\ Instance("listener") = [aiProvider |-> "openai", providerType |-> "openai",
                             model |-> "gpt-4"]

\* C19: once a switchProvider call has returned, every request an
\* orchestration of the listener or of the retry scheduler sends goes to the
\* provider that call activated.
C19_SharedActiveProvider ==
  [][last'.op = "generateSummary" /\ activated.ref # "none"
     => last'.arg.provider = activated.ref]_vars

\* C20: every request in flight carries a provider and a model that a switch
\* (or the constructor) made active together on the sending instance; a
\* switchProvider step leaves the requests in flight as they are, and a
\* completion answers a request that was in flight, from the provider it was
\* sent to.
C20_SwitchAtomic ==
  [][/\ \A r \in requests' : r \in activated'.pairs
     /\ last'.op \in {"switchProvider", "healthCheck"} => requests' = requests
     /\ last'.op = "generateCompletion"
          => last'.arg \in requests /\ requests' = requests \ {last'.arg}]_vars

C20_Witness ==
  /\ last.op = "switchProvider" /\ last.outcome = "returned"
  /\ \E r \in requests :
       /\ r.svc = last.arg.svc
       /\ r.provider # aiProvider[r.svc]
       /\ r.model # model[r.svc]

\* C21: when the network call of generateCompletion fails with an HTTP
\* status, a timeout or a connection reset, the error thrown is retryable
\* exactly when the status is 5xx, 429 or 408 or the failure was a timeout or
\* a reset.
C21_RetryableClassification ==
  [][/\ last'.op = "provider.generateCompletion"
     /\ last'.value.network
     /\ last'.arg.net.kind \in {"http", "timeout", "reset"}
     => /\ last'.value.threw
        /\ last'.value.retryable =
             (\/ last'.arg.net.kind \in {"timeout", "reset"}
              \/ last'.arg.net.status >= 500
              \/ last'.arg.net.status \in {408, 429})]_vars

\* C22: generateCompletion makes its network call only on an initialized
\* provider and for a request with a supported model, maxTokens within the
\* provider's ceiling, temperature within the provider's range and at least
\* one message; any other call throws a non-retryable error without a
\* network call.
C22_ValidatedBeforeNetwork ==
  [][last'.op = "provider.generateCompletion"
     => LET req == last'.arg.req
            valid ==
              /\ provider.initialized
              /\ req.model \in supportedModels(provider.type)
              /\ req.maxTokens <= (IF provider.type = "claude" THEN 8192 ELSE 16384)
              /\ req.temperature >= 0
              /\ req.temperature <= (IF provider.type = "claude" THEN 10 ELSE 20)
              /\ req.messages > 0
        IN /\ last'.value.network => valid
           /\ ~valid => /\ last'.value.threw
                        /\ ~last'.value.retryable
                        /\ ~last'.value.network]_vars

\* C23: createProvider returns exactly when the type is registered and the
\* API key is not blank, and then the provider it constructed is initialized;
\* for an unregistered type it throws having constructed nothing; for a blank
\* key it throws the non-retryable INVALID_CONFIG error and the provider it
\* constructed is left uninitialized.
C23_CreateProvider ==
  [][last'.op = "createProvider"
     => LET a == last'.arg
            registered == a.type \in {"claude", "openai"}
            blank == a.apiKey \in {"", " "}
        IN /\ (last'.outcome = "returned") = (registered /\ ~blank)
           /\ last'.outcome = "returned"
                => /\ last'.value.provider = a.type
                   /\ provider'.type = a.type /\ provider'.initialized
           /\ ~registered => last'.outcome = "threw" /\ provider' = provider
           /\ registered /\ blank
                => /\ last'.outcome = "threw"
                   /\ last'.value.code = "INVALID_CONFIG"
                   /\ ~last'.value.retryable
                   /\ provider' = [type |-> a.type, initialized |-> FALSE,
                                   client |-> FALSE]]_vars

C23_Witness ==
  /\ last.op = "createProvider" /\ last.outcome = "threw"
  /\ last.arg = [type |-> "openai", apiKey |-> " "]
  /\ last.value.code = "INVALID_CONFIG"
  /\ provider = [type |-> "openai", initialized |-> FALSE, client |-> FALSE]

\* C24: healthCheck never throws; it resolves to false on an uninitialized
\* provider and when the probe call fails, and to true only when the probe
\* call answered with a non-empty result.
C24_HealthCheckNeverThrows ==
  [][last'.op = "provider.healthCheck"
     => /\ last'.outcome = "returned"
        /\ ~provider.initialized \/ last'.arg.probe = "fails"
             => last'.value.value = "false"
        /\ last'.value.value = "true"
             => /\ provider.initialized
                /\ last'.arg.probe = "nonempty"
                /\ last'.value.network]_vars

C24_Witness ==
  /\ last.op = "provider.healthCheck" /\ last.outcome = "returned"
  /\ provider.initialized /\ last.arg.probe = "fails"
  /\ last.value.value = "false" /\ last.value.network

\* C25: a note-created event that has already been processed (a summary or a
\* failed job exists for it) and is delivered again leaves ai_summaries and
\* failed_jobs as they were.
C25_IdempotentPerEvent ==
  [][/\ Call("deliverNoteCreated") /\ last'.value = 1
     /\ \/ \E row \in BagToSet(aiSummaries) : row.lastProcessedNoteId = TheEvent.id
        \/ \E j \in failedJobs : j.payload = TheEvent
     => aiSummaries' = aiSummaries /\ failedJobs' = failedJobs]_vars

\* C26: in a scan in which only the job_retry_success or the job_abandoned
\* notification fails, every due job of the batch is still processed, a job
\* whose retry succeeded stays deleted and gets no retry-failure handling, and
\* a job that was abandoned stays abandoned.
C26_NotifyFailureNonFatal ==
  [][/\ Call("processRetries")
     /\ last'.faulted # {}
     /\ last'.faulted \subseteq {"notifyRetrySuccess", "notifyAbandoned"}
     => /\ last'.started = {j.id : j \in DueJobs(failedJobs, now)}
        /\ last'.succeeded \cap last'.handled = {}
        /\ \A j \in failedJobs' :
             /\ j.id \notin last'.succeeded
             /\ j.id \in last'.abandoned => j.status = "abandoned"]_vars

\* C27: a malformed payload on any channel is swallowed by the callbacks it
\* reaches: nothing is thrown, the listener's running flag and its held and
\* live subscriptions are unchanged and nothing is stored; a note-created
\* event delivered next is dispatched once per live subscription.
C27_MalformedSwallowed ==
  [][/\ Call("deliverMalformed")
          => /\ last'.outcome = "returned"
             /\ isListening' = isListening
             /\ subscriptions' = subscriptions /\ live' = live
             /\ failedJobs' = failedJobs /\ aiSummaries' = aiSummaries
     /\ last.op = "deliverMalformed" /\ Call("deliverNoteCreated")
          => /\ last'.value = Cardinality(Callbacks(live, Channels[1]))
             /\ OnePerChannel(live) => last'.value = 1]_vars

C27_Witness ==
  /\ last.op = "deliverMalformed" /\ last.outcome = "returned"
  /\ last.arg.id = 1 /\ last.value = 1
  /\ isListening /\ OnePerChannel(live)

\* C28: processAdminNoteCreated for a student with no stored notes, the
\* select having succeeded, returns having made no provider call and having
\* created no summary, no failed job and no notification.
C28_ZeroNotesNoEffect ==
  [][/\ Call("processAdminNoteCreated")
     /\ adminNotes[TheEvent.student_id] = 0
     /\ "selectNotes" \notin last'.faulted
     => /\ last'.outcome = "returned"
        /\ last'.faulted = {} /\ ~last'.uninitialized
        /\ last'.summarized = 0 /\ last'.inserted = {} /\ last'.emitted = {}
        /\ aiSummaries' = aiSummaries
        /\ failedJobs' = failedJobs
        /\ jobRetryLog' = jobRetryLog]_vars

C28_Witness ==
  /\ last.op = "processAdminNoteCreated" /\ last.outcome = "returned"
  /\ last.faulted = {} /\ last.emitted = {}
  /\ adminNotes[TheEvent.student_id] = 0
  /\ aiSummaries = EmptyBag /\ failedJobs = {}

\* C29: every summary row stored for a student with k notes has noteCount
\* min(k, 10), the student of the event, and as its text the provider's
\* answer to the prompt built from the k newest notes, at most 10.
C29_SummaryOfRecentNotes ==
  \A row \in BagToSet(aiSummaries) :
    LET k == adminNotes[row.studentId]
        newest == {i \in 1..k : i + 10 > k}
    IN /\ row.noteCount = (IF k < 10 THEN k ELSE 10)
       /\ row.studentId = TheEvent.student_id
       /\ row.lastProcessedNoteId = TheEvent.id
       /\ row.summary = [answerTo |-> [count |-> row.noteCount, notes |-> newest]]

C29_Witness ==
  /\ last.op = "processAdminNoteCreated" /\ last.summarized = 1
  /\ adminNotes[TheEvent.student_id] = 11
  /\ \E row \in BagToSet(aiSummaries) :
       row.noteCount = 10 /\ row.summary.answerTo.notes = 2..11

\* C30: at most one interval timer is ever active; startRetryProcessor while
\* running creates none; stopRetryProcessor leaves no timer active and the
\* store as it was, and changes nothing when the processor is not running; a
\* scan begins only while the processor is running.
C30_SchedulerLifecycle ==
  [][/\ timers' <= 1
     /\ Call("startRetryProcessor")
          => /\ isRunning' /\ timers' = 1
             /\ isRunning => timers' = timers
     /\ Call("stopRetryProcessor")
          => /\ ~isRunning' /\ timers' = 0
             /\ failedJobs' = failedJobs /\ jobRetryLog' = jobRetryLog
             /\ ~isRunning => timers' = timers /\ retryInterval' = retryInterval
     /\ Call("processRetries") => isRunning]_vars

C30_Witness ==
  /\ last.op = "stopRetryProcessor" /\ ~isRunning /\ timers = 0
  /\ DueJobs(failedJobs, now) # {}

\* C31: whatever sequence of application start-up and POST /processor/start
\* and /processor/stop requests occurs, at most one retry timer is active in
\* the process.
C31_OneRetryTimer == timers <= 1

\* the attempts that have set their job to retrying and not yet ended
Retrying(id) ==
  {i \in 1..Len(attempts) : attempts[i].job.id = id /\ attempts[i].pc # "setRetrying"}

\* C32: no FailedJob is executed by two retry attempts at the same time,
\* under every interleaving of overlapping scheduler ticks and retryJobById
\* calls: a job that one attempt has set to retrying is not picked up by
\* another.
C32_OneAttemptPerJob ==
  \A id \in 1..MaxJobs : Cardinality(Retrying(id)) <= 1

\* C33: status retrying is transient: every job that a retry attempt sets to
\* retrying is, when the attempt ends, deleted, back in status failed, or
\* abandoned, also when the retry-log insert or the job update of the failure
\* handling fails.
C33_RetryingIsTransient ==
  [][RetryCall
     => \A j \in failedJobs' : j.id \in last'.started => j.status # "retrying"]_vars

\* C34: every FailedJob has 1 <= attemptCount <= maxRetries in every state
\* reached by recordFailedJob, scheduler ticks, retryJobById (also on abandoned
\* or retrying jobs) and cleanupOldJobs, and the attemptCount of a job id
\* never decreases.
C34_AttemptCountBounded ==
  [][/\ \A j \in failedJobs' :
          1 <= j.attemptCount /\ j.attemptCount <= j.maxRetries
     /\ \A j \in failedJobs, x \in failedJobs' :
          x.id = j.id => j.attemptCount <= x.attemptCount]_vars

\* job id is in status failed and its nextRetryAt has passed
FailedAndDue(id) ==
  \E j \in failedJobs : j.id = id /\ j.status = "failed" /\ j.nextRetryAt <= now

\* C35: while the scheduler runs, for every maxRetries >= 1 given to
\* recordFailedJob, a recorded job whose nextRetryAt has passed is eventually
\* retried by a tick or marked abandoned: it does not stay failed and due.
C35_FailedJobsProgress ==
  \A id \in 1..MaxJobs : FailedAndDue(id) ~> ~FailedAndDue(id)

\* the job_retry_log rows of job j number its attempts 2..attemptCount, one
\* row each
AuditConsistent(log, j) ==
  /\ BagCardinality(LogEntriesOf(log, j.id)) = j.attemptCount - 1
  /\ {e.attemptNumber : e \in LogRowsOf(log, j.id)} = 2..j.attemptCount

\* C36: whenever a FailedJob is in status failed or abandoned, the
\* RetryLogEntry rows that reference it are attemptCount - 1 in number and
\* their attemptNumbers are exactly 2..attemptCount; a successful retry
\* appends no RetryLogEntry; and every RetryLogEntry references a FailedJob
\* that exists.
C36_AuditTrail ==
  [][/\ \A j \in failedJobs' :
          j.status \in {"failed", "abandoned"} => AuditConsistent(jobRetryLog', j)
     /\ RetryCall /\ last'.handled = {} => jobRetryLog' = jobRetryLog
     /\ \A e \in BagToSet(jobRetryLog') : e.failedJobId \in {j.id : j \in failedJobs'}]_vars

\* C37: when a second startListening is invoked while the first still awaits
\* its subscriptions, then once both calls have returned the listener holds
\* exactly one live subscription per channel and a note-created event is
\* dispatched to the orchestrator once.
C37_OverlappingStartSafe ==
  starting = <<>> /\ isListening
    => /\ OnePerChannel(live)
       /\ last.op = "deliverNoteCreated" => last.value = 1

\* C38: when an unsubscribe fails during stopListening the error reaches the
\* caller and the listener is left as it was, isRunning() true and the held
\* subscriptions not cleared, so that a later stopListening on which no
\* unsubscribe fails ends every held subscription that is still live.
C38_StopFailureKeepsState ==
  [][Call("stopListening") /\ isListening
     => /\ last'.arg.id >= 1
             => /\ last'.outcome = "threw"
                /\ isListening'
                /\ subscriptions' = subscriptions
        /\ last'.arg.id = 0
             => /\ last'.value = Cardinality(live \cap subscriptions)
                /\ live' \cap subscriptions = {}]_vars

\* a stop failed after ending some of the held subscriptions: the listener
\* still runs and still holds them all
C38_Witness ==
  /\ last.op = "stopListening" /\ last.outcome = "threw"
  /\ isListening
  /\ Cardinality(subscriptions) = Len(Channels)
  /\ \E h \in subscriptions : h \notin live

\* the operations whose failure is not a failure of a job's handler: the
\* select of the tick, the writes of handleRetryFailure and the notifications
NotOfTheHandler ==
  {"selectJobs", "insertRetryLog", "updateJob", "notifyAbandoned",
   "notifyRetrySuccess"}

\* C39: within one scheduler tick the selected jobs are retried one after
\* another; a handler failure of one job that handleRetryFailure records does
\* not keep the remaining selected jobs of the tick from being retried, and
\* no failure inside a tick stops later ticks: processRetries returns and the
\* timer stays set.
C39_BatchIsolation ==
  [][Call("processRetries")
     => /\ last'.outcome = "returned"
        /\ timers' = timers /\ isRunning' = isRunning
        /\ retryInterval' = retryInterval
        /\ last'.started \subseteq {j.id : j \in DueJobs(failedJobs, now)}
        /\ last'.faulted \cap NotOfTheHandler = {}
             => last'.started = {j.id : j \in DueJobs(failedJobs, now)}]_vars

\* the handler of the first job of a tick failed and was rescheduled, and the
\* second job of the tick was retried and succeeded
C39_Witness ==
  /\ last.op = "processRetries"
  /\ \E a, b \in last.started :
       /\ a < b
       /\ a \in last.handled /\ a \in last.rescheduled /\ a \notin last.executed
       /\ b \in last.succeeded

\* C40: after a successful switchProvider(type, apiKey, model?) the active
\* model is one of the active provider's supportedModels, so that the next
\* summarization request is not rejected as an unsupported model, and the
\* active provider type names the provider object held.
C40_SwitchLeavesUsableModel ==
  [][last'.op = "switchProvider" /\ last'.outcome = "returned"
     => \E svc \in {last'.arg.svc} :
          /\ model'[svc] \in supportedModels(aiProvider'[svc])
          /\ providerType'[svc] = aiProvider'[svc]]_vars
====
